---- MODULE Spec2Model ----
(***************************************************************************)
(* A model of the partytracks client (PartyTracks, the session             *)
(* coordinator makePeerConnectionSessionCombo, the bulk request            *)
(* dispatchers and the FIFO task scheduler) and of partysocket             *)
(* (ReconnectingSocket and the React hook useStableSocket) and of the      *)
(* initialization of a partyserver Server.                                 *)
(*                                                                         *)
(* The specifications share the variables below:                           *)
(*   SpecSession   the session coordinator: session$ with its peer         *)
(*                 connections, watchers, probation timer and retries;     *)
(*   SpecDispatch  one BulkRequestDispatcher with an abstract batchFn;     *)
(*   SpecSignal    push / pull / close subscriptions of one PartyTracks    *)
(*                 on one peer connection: the three dispatchers, the      *)
(*                 scheduler and the signaling jobs;                       *)
(*   SpecTracks    one push() or pull() pipeline over the sessions;        *)
(*   SpecSocket    one ReconnectingSocket;                                 *)
(*   SpecBinding   one component that calls useStableSocket;               *)
(*   SpecServer    one partyserver Server instance and its events.         *)
(* Each specification leaves the variables of the others at their          *)
(* initial value.                                                          *)
(***************************************************************************)
EXTENDS Naturals, Integers, Sequences, FiniteSets, TLC

(***************************************************************************)
(* Bounds of the model.                                                    *)
(***************************************************************************)
\* peer connections the coordinator may construct in one behaviour
MaxPCs == 3
\* subscribers session$ may have at once
MaxSubscribers == 2
\* retryWithBackoff: resubscriptions in a row before the error is delivered
MaxAttempts == 2
\* POST {prefix}/sessions/new requests issued in one behaviour
MaxRequests == 4
\* push and pull subscriptions of one behaviour
MaxSubs == 2
\* doBulkRequest calls made on the dispatcher of SpecDispatch
MaxCalls == 4
\* largest capacity the dispatcher of SpecDispatch is constructed with
MaxCapacity == 3
\* remote tracks a pull may name
MaxRemoteTracks == 2
\* sessions session$ emits
MaxSessions == 3
\* #pushTrackInBulk and #pullTrackInBulk subscriptions of the two pipelines
MaxInner == 4
\* tracks the source of a push emits
MaxTracks == 2
\* values sendEncodings$ emits after its first
MaxEncodings == 1
\* values preferredRid$ emits after its first
MaxRidValues == 2
\* distinct descriptors the trackData$ of a pull emits
MaxDescriptors == 1
\* push() and pull() observables subscribed over the life of PartyTracks
MaxPipelines == 1

\* largest maxRetries a ReconnectingSocket is constructed with
MaxRetriesOption == 2
\* largest maxEnqueuedMessages a ReconnectingSocket is constructed with
MaxEnqueuedOption == 2
\* send() calls on the ReconnectingSocket
MaxMessages == 3
\* reconnect() calls on the ReconnectingSocket
MaxReconnects == 2
\* close() calls on the ReconnectingSocket
MaxCloses == 1
\* times an underlying socket of the ReconnectingSocket opens
MaxOpens == 2

\* distinct values of the connection options the component is rendered with
MaxOptionValues == 2
\* renders of the component that change the options memo key
MaxKeyChanges == 3

\* requests, WebSocket upgrades and WebSocket messages a Server receives
MaxEvents == 4
\* times onStart of the Server throws
MaxOnStartFailures == 2
\* hibernated connections a woken Server instance starts with
MaxHibernated == 1

\* The capacity PartyTracks constructs its three dispatchers with.
DispatcherCapacity == 32

VARIABLES
  \* ---- session coordinator (makePeerConnectionSessionCombo) ----
  refCount,            \* subscribers of session$ (shareReplay, refCount: true)
  source,              \* "idle" | "fetching" | "live" | "backoff"
  attempt,             \* retryWithBackoff's attempt counter
  pcs,                 \* the peer connections constructed so far, in order
  current,             \* index in pcs of the session replayed by shareReplay, 0 if none
  newSessionRequests,  \* number of POST {prefix}/sessions/new issued
  staleFetches,        \* fetches in flight whose observer has unsubscribed
  lastEvent,           \* the handler that ran last: [name, pc, rebuilt]
  \* ---- dispatchers, scheduler and signaling (PartyTracks) ----
  capacity,            \* [dispatcher -> the capacity it was constructed with]
  calls,               \* the doBulkRequest calls made so far, in order
  batches,             \* the batches opened so far, in order
  openBatch,           \* [dispatcher -> index in batches of its open batch, or 0]
  jobs,                \* the batchFn invocations so far (scheduler jobs), in order
  peerConnection,      \* the peer connections of the sessions emitted so
                       \* far, by session id: [connectionState]
  transceivers,        \* the transceivers of the peer connections
  requests,            \* the signaling requests issued so far, in order
  subs,                \* the #pushTrackInBulk and #pullTrackInBulk
                       \* subscriptions, each with what it closed over
  \* ---- one push() and one pull() pipeline (PartyTracks) ----
  pushed,              \* the observable push() returned and its operators
  pulled,              \* the observable pull() returned and its operators
  \* ---- one ReconnectingSocket (partysocket) ----
  rws,                 \* its fields, its queue and the underlying socket
  \* ---- one useStableSocket hook (partysocket/react) ----
  hook,                \* the state, refs and last effect of the hook
  sockets,             \* the sockets createSocket returned, in order
  \* ---- one Server instance (partyserver) ----
  server               \* its status, name, input gate and the events it got

sessVars ==
  <<refCount, source, attempt, pcs, current, newSessionRequests, staleFetches,
    lastEvent>>

trkVars == <<pushed, pulled>>

sigVars ==
  <<capacity, calls, batches, openBatch, jobs, peerConnection, transceivers,
    requests, subs, trkVars>>

sockVars == <<rws, hook, sockets, server>>

vars == <<sessVars, sigVars, sockVars>>

(***************************************************************************)
(* RTCPeerConnection states the watchers read.                             *)
(***************************************************************************)
ConnectionStates ==
  {"new", "connecting", "connected", "disconnected", "failed", "closed"}

IceConnectionStates ==
  {"new", "checking", "connected", "completed", "disconnected", "failed",
   "closed"}

\* new RTCPeerConnection({ iceServers, bundlePolicy }) for the session id sid;
\* subscriberOpen is the inner Observable's subscriber, iceTimeout the pending
\* probation timer (the source's -1 is FALSE).
NewPeerConnection(sid) ==
  [ sessionId          |-> sid,
    connectionState    |-> "new",
    iceConnectionState |-> "new",
    isClosed           |-> FALSE,
    subscriberOpen     |-> TRUE,
    iceTimeout         |-> FALSE ]

\* peerConnection.close(): every state becomes closed; no event is fired.
ClosePeerConnection(pc) ==
  [pc EXCEPT !.connectionState = "closed",
             !.iceConnectionState = "closed",
             !.isClosed = TRUE]

\* Faulty variant of Teardown: the subscriber closes but peerConnection.close() is
\* not registered as its teardown.
TeardownWithoutClose(pc) == [pc EXCEPT !.subscriberOpen = FALSE]

\* The teardown registered by subscriber.add(() => peerConnection.close()).
\* It leaves iceTimeout alone: the source never clears the timer on teardown.
Teardown(pc) == [ClosePeerConnection(pc) EXCEPT !.subscriberOpen = FALSE]

ActivePeerConnections == {p \in DOMAIN pcs : ~pcs[p].isClosed}

Subs == 1..MaxSubs

DispatcherKinds == {"push", "pull", "close", "generic"}

IdleSub == [kind |-> "none", state |-> "idle", open |-> FALSE, session |-> 0,
            name |-> 0, tx |-> 0, track |-> 0, mid |-> 0, emitted |-> 0]

\* The metadata a push emits before its mid is removed; all zero while
\* #pushTrackInBulk has emitted nothing.
NoTrackData ==
  [trackName |-> 0, mid |-> 0, sessionId |-> 0, location |-> "none"]

\* Faulty variant of CleanedTrackData: the metadata is emitted as it is.
CleanedTrackDataWithMid(trackData) == trackData

\* const cleanedTrackData = { ...trackData }; delete cleanedTrackData.mid
CleanedTrackData(trackData) ==
  [f \in DOMAIN trackData \ {"mid"} |-> trackData[f]]

\* push() and pull() not yet subscribed.
IdlePush ==
  [state |-> "idle", track |-> 0, stableId |-> 0, minted |-> 0, tx |-> 0,
   inner |-> 0, hasData |-> FALSE, trackData |-> NoTrackData,
   encodings |-> 0, emitted |-> 0, out |-> CleanedTrackData(NoTrackData)]

IdlePull ==
  [state |-> "idle", trackData |-> 0, preferredRid |-> 0,
   subsequentPreferredRid |-> 0, ridValues |-> 0, inner |-> 0, track |-> 0,
   emitted |-> 0]

TracksIdle == pushed = IdlePush /\ pulled = IdlePull

\* PartyTracks as constructed, before any push or pull.
SignalIdle ==
  /\ TracksIdle
  /\ calls = <<>>
  /\ batches = <<>>
  /\ openBatch = [k \in DispatcherKinds |-> 0]
  /\ jobs = <<>>
  /\ peerConnection = <<[connectionState |-> "new"]>>
  /\ transceivers = <<>>
  /\ requests = <<>>
  /\ subs = [s \in Subs |-> IdleSub]

\* session$ before its first subscriber.
SessionIdle ==
  /\ refCount = 0
  /\ source = "idle"
  /\ attempt = 0
  /\ pcs = <<>>
  /\ current = 0
  /\ newSessionRequests = 0
  /\ staleFetches = 0
  /\ lastEvent = [name |-> "init", pc |-> 0, rebuilt |-> FALSE]

\* No ReconnectingSocket and no useStableSocket hook has been constructed.
SocketsIdle ==
  /\ rws = <<>>
  /\ hook = <<>>
  /\ sockets = <<>>
  /\ server = <<>>

InitSession ==
  /\ SessionIdle
  /\ SocketsIdle
  /\ SignalIdle
  /\ capacity = [k \in DispatcherKinds |-> DispatcherCapacity]

Event(n, p, r) == [name |-> n, pc |-> p, rebuilt |-> r]

\* Faulty variant of retryWithBackoff: every error is answered by another
\* resubscription, however many came before.
RetryOnErrorUnbounded ==
  /\ attempt' = attempt + 1
  /\ source' = "backoff"
  /\ UNCHANGED <<refCount, current>>

(***************************************************************************)
(* retryWithBackoff, on an error of its source: resubscribe after a delay  *)
(* while attempts remain, else deliver the error.  The delivered error     *)
(* ends every subscriber of session$ and shareReplay resets.               *)
(***************************************************************************)
RetryOnError ==
  IF attempt < MaxAttempts
  THEN /\ attempt' = attempt + 1
       /\ source' = "backoff"
       /\ UNCHANGED <<refCount, current>>
  ELSE /\ attempt' = 0
       /\ source' = "idle"
       /\ refCount' = 0
       /\ current' = 0

\* forkJoin({ sessionId: fromFetch(POST sessions/new), iceServers }) is
\* subscribed: the request is issued.
RequestNewSession ==
  /\ newSessionRequests < MaxRequests
  /\ newSessionRequests' = newSessionRequests + 1
  /\ source' = "fetching"

\* A subscriber of session$ arrives; the first one subscribes the source.
SubscribeSession ==
  /\ UNCHANGED <<sigVars, sockVars>>
  /\ refCount < MaxSubscribers
  /\ refCount' = refCount + 1
  /\ IF refCount = 0
     THEN RequestNewSession
     ELSE UNCHANGED <<source, newSessionRequests>>
  /\ lastEvent' = Event("subscribe", 0, FALSE)
  /\ UNCHANGED <<attempt, pcs, current, staleFetches>>

\* A subscriber leaves; the last one unsubscribes the source, which runs the
\* inner subscriber's teardown, abandons a pending fetch and cancels a
\* pending retry.
UnsubscribeSession ==
  /\ UNCHANGED <<sigVars, sockVars>>
  /\ refCount > 0
  /\ refCount' = refCount - 1
  /\ IF refCount = 1
     THEN /\ source' = "idle"
          /\ current' = 0
          /\ attempt' = 0
          /\ pcs' = IF source = "live"
                    THEN [pcs EXCEPT ![current] = Teardown(pcs[current])]
                    ELSE pcs
          /\ staleFetches' =
               IF source = "fetching" THEN staleFetches + 1 ELSE staleFetches
     ELSE UNCHANGED <<source, current, attempt, pcs, staleFetches>>
  /\ lastEvent' = Event("unsubscribe", 0, FALSE)
  /\ UNCHANGED newSessionRequests

\* Both fetches resolved: switchMap subscribes the inner Observable, which
\* constructs the peer connection, attaches the watchers and emits the
\* session.  The value resets retryWithBackoff's attempt counter.
SessionCreated ==
  /\ UNCHANGED <<sigVars, sockVars>>
  /\ source = "fetching"
  /\ Len(pcs) < MaxPCs
  /\ pcs' = Append(pcs, NewPeerConnection(newSessionRequests))
  /\ current' = Len(pcs) + 1
  /\ source' = "live"
  /\ attempt' = 0
  /\ lastEvent' = Event("session", Len(pcs) + 1, FALSE)
  /\ UNCHANGED <<refCount, newSessionRequests, staleFetches>>

\* A fetch of the join failed.
SessionFetchFailed ==
  /\ UNCHANGED <<sigVars, sockVars>>
  /\ source = "fetching"
  /\ RetryOnError
  /\ lastEvent' = Event("fetchFailed", 0, FALSE)
  /\ UNCHANGED <<pcs, newSessionRequests, staleFetches>>

\* The backoff delay elapsed: retryWithBackoff resubscribes its source.
RetryTimerFires ==
  /\ UNCHANGED <<sigVars, sockVars>>
  /\ source = "backoff"
  /\ RequestNewSession
  /\ lastEvent' = Event("retry", 0, FALSE)
  /\ UNCHANGED <<refCount, attempt, pcs, current, staleFetches>>

\* The response of a fetch nobody listens to any more.
StaleFetchResponse ==
  /\ UNCHANGED <<sigVars, sockVars>>
  /\ staleFetches > 0
  /\ staleFetches' = staleFetches - 1
  /\ lastEvent' = Event("staleFetch", 0, FALSE)
  /\ UNCHANGED <<refCount, source, attempt, pcs, current, newSessionRequests>>

(***************************************************************************)
(* The watchers of one peer connection.  base is pcs as the handler found  *)
(* it (the state the browser reported, the timer it cleared).              *)
(***************************************************************************)
\* reconnect(message): subscriber.error(new Error(message)).  An open
\* subscriber hands the error to retryWithBackoff and runs its teardown;
\* a closed subscriber ignores it.
ReconnectResets(p, base) ==
  /\ pcs' = [base EXCEPT ![p] = Teardown(base[p])]
  /\ RetryOnError

\* Faulty variant of reconnect: the rebuild is started whether or not the subscriber
\* of the session is still open.
reconnectUnguarded(p, base) == ReconnectResets(p, base)

reconnect(p, base) ==
  IF base[p].subscriberOpen
  THEN ReconnectResets(p, base)
  ELSE /\ pcs' = base
       /\ UNCHANGED <<refCount, source, attempt, current>>

\* Faulty variant of OnConnectionStateChange: only "failed" is taken as fatal.
OnConnectionStateChangeFailedOnly(p, s, base) ==
  IF s = "failed"
  THEN reconnect(p, base)
  ELSE /\ pcs' = base
       /\ UNCHANGED <<refCount, source, attempt, current>>

\* The "connectionstatechange" listener, the browser reporting state s.
OnConnectionStateChange(p, s, base) ==
  IF s \in {"failed", "closed"}
  THEN reconnect(p, base)
  ELSE /\ pcs' = base
       /\ UNCHANGED <<refCount, source, attempt, current>>

\* Faulty variant of OnIceConnectionStateChange: the pending timer is not cleared.
OnIceConnectionStateChangeNoClear(p, s, base) ==
  IF s \in {"failed", "closed"}
  THEN reconnect(p, base)
  ELSE /\ pcs' = IF s = "disconnected"
                  THEN [base EXCEPT ![p].iceTimeout = TRUE]
                  ELSE base
       /\ UNCHANGED <<refCount, source, attempt, current>>

\* The "iceconnectionstatechange" listener: clearTimeout(iceTimeout) first,
\* then reconnect, or start the probation timer on "disconnected".
OnIceConnectionStateChange(p, s, base) ==
  LET cleared == [base EXCEPT ![p].iceTimeout = FALSE] IN
  IF s \in {"failed", "closed"}
  THEN reconnect(p, cleared)
  ELSE /\ pcs' = IF s = "disconnected"
                  THEN [cleared EXCEPT ![p].iceTimeout = TRUE]
                  ELSE cleared
       /\ UNCHANGED <<refCount, source, attempt, current>>

\* The callback of window.setTimeout(..., timeoutSeconds * 1000).
OnIceTimeout(p, base) ==
  IF base[p].iceConnectionState = "connected"
  THEN /\ pcs' = base
       /\ UNCHANGED <<refCount, source, attempt, current>>
  ELSE reconnect(p, base)

\* The browser changes connectionState of an open peer connection.
ConnectionStateChange(p, s) ==
  /\ UNCHANGED <<sigVars, sockVars>>
  /\ p \in DOMAIN pcs
  /\ ~pcs[p].isClosed
  /\ s # pcs[p].connectionState
  /\ LET base == [pcs EXCEPT ![p].connectionState = s,
                             ![p].isClosed = (s = "closed")] IN
       /\ OnConnectionStateChange(p, s, base)
       /\ lastEvent' = Event("connectionstatechange", p,
                             s \in {"failed", "closed"} /\ base[p].subscriberOpen)
  /\ UNCHANGED <<newSessionRequests, staleFetches>>

\* The browser changes iceConnectionState of an open peer connection.
IceConnectionStateChange(p, s) ==
  /\ UNCHANGED <<sigVars, sockVars>>
  /\ p \in DOMAIN pcs
  /\ ~pcs[p].isClosed
  /\ s # pcs[p].iceConnectionState
  /\ LET base == [pcs EXCEPT ![p].iceConnectionState = s,
                             ![p].isClosed = (s = "closed")] IN
       /\ OnIceConnectionStateChange(p, s, base)
       /\ lastEvent' = Event("iceconnectionstatechange", p,
                             s \in {"failed", "closed"} /\ base[p].subscriberOpen)
  /\ UNCHANGED <<newSessionRequests, staleFetches>>

\* An event dispatched after peerConnection.close(): the listeners stay
\* attached and read the state "closed".
LateConnectionStateEvent(p) ==
  /\ UNCHANGED <<sigVars, sockVars>>
  /\ p \in DOMAIN pcs
  /\ pcs[p].isClosed
  /\ OnConnectionStateChange(p, pcs[p].connectionState, pcs)
  /\ lastEvent' = Event("late-connectionstatechange", p, pcs[p].subscriberOpen)
  /\ UNCHANGED <<newSessionRequests, staleFetches>>

LateIceConnectionStateEvent(p) ==
  /\ UNCHANGED <<sigVars, sockVars>>
  /\ p \in DOMAIN pcs
  /\ pcs[p].isClosed
  /\ OnIceConnectionStateChange(p, pcs[p].iceConnectionState, pcs)
  /\ lastEvent' = Event("late-iceconnectionstatechange", p, pcs[p].subscriberOpen)
  /\ UNCHANGED <<newSessionRequests, staleFetches>>

\* The probation timer fires, 7 seconds after the "disconnected" that set it.
IceTimeoutFires(p) ==
  /\ UNCHANGED <<sigVars, sockVars>>
  /\ p \in DOMAIN pcs
  /\ pcs[p].iceTimeout
  /\ LET base == [pcs EXCEPT ![p].iceTimeout = FALSE] IN
       /\ OnIceTimeout(p, base)
       /\ lastEvent' = Event("iceTimeout", p,
                             base[p].iceConnectionState # "connected"
                               /\ base[p].subscriberOpen)
  /\ UNCHANGED <<newSessionRequests, staleFetches>>

NextSession ==
  \/ SubscribeSession
  \/ UnsubscribeSession
  \/ SessionCreated
  \/ SessionFetchFailed
  \/ RetryTimerFires
  \/ StaleFetchResponse
  \/ \E p \in 1..MaxPCs, s \in ConnectionStates \ {"new"} :
       ConnectionStateChange(p, s)
  \/ \E p \in 1..MaxPCs, s \in IceConnectionStates \ {"new"} :
       IceConnectionStateChange(p, s)
  \/ \E p \in 1..MaxPCs : LateConnectionStateEvent(p)
  \/ \E p \in 1..MaxPCs : LateIceConnectionStateEvent(p)
  \/ \E p \in 1..MaxPCs : IceTimeoutFires(p)

SpecSession == InitSession /\ [][NextSession]_vars

\* Timers fire and fetches settle: the delay of retryWithBackoff elapses, and
\* the browser answers a pending fetch, with a response or with a failure.
SpecSessionFair ==
  /\ SpecSession
  /\ WF_vars(RetryTimerFires)
  /\ WF_vars(SessionCreated \/ SessionFetchFailed)

(***************************************************************************)
(* C7.  At every moment at most one peer connection constructed by the     *)
(* coordinator is active (constructed and not closed), also while a        *)
(* session is being rebuilt after a failure.                               *)
(***************************************************************************)
C7_AtMostOneActivePeerConnection == Cardinality(ActivePeerConnections) <= 1

\* A rebuilt session: the failed peer connection is closed, its replacement
\* is the only active one.
C7_Witness ==
  /\ Len(pcs) >= 2
  /\ source = "live"
  /\ refCount > 0
  /\ pcs[current - 1].isClosed
  /\ ActivePeerConnections = {current}

(***************************************************************************)
(* C8.  When the last subscriber of session$ has unsubscribed, the peer    *)
(* connection is closed, and while nobody subscribes no session is         *)
(* requested and no peer connection is constructed, whichever watcher or   *)
(* probation timer of the old peer connection runs.                        *)
(***************************************************************************)
C8_NoRebuildAfterLastUnsubscribe ==
  /\ [](refCount = 0 => ActivePeerConnections = {} /\ source = "idle")
  /\ [][ (refCount = 0 /\ refCount' = 0)
           => /\ Len(pcs') = Len(pcs)
              /\ newSessionRequests' = newSessionRequests
              /\ source' = "idle" ]_vars

\* The probation timer of a closed peer connection fired with no subscriber
\* left.
C8_Witness ==
  /\ refCount = 0
  /\ lastEvent.name = "iceTimeout"
  /\ pcs[lastEvent.pc].isClosed
  /\ ~pcs[lastEvent.pc].subscriberOpen

(***************************************************************************)
(* C9.  While session$ has a subscriber, a peer connection whose           *)
(* connectionState or iceConnectionState became failed or closed is        *)
(* abandoned at once (its subscriber is closed, it is closed), and unless  *)
(* the subscribers leave or the retries run out a later session is         *)
(* emitted, with a session id requested after the failure and a peer       *)
(* connection constructed after it.                                        *)
(***************************************************************************)
FatalState(pc) ==
  \/ pc.connectionState \in {"failed", "closed"}
  \/ pc.iceConnectionState \in {"failed", "closed"}

NewerSessionEmitted(p) ==
  /\ source = "live"
  /\ current > p
  /\ ~pcs[current].isClosed
  /\ pcs[current].sessionId > pcs[p].sessionId

\* The bounds of the model stop the coordinator from requesting a session.
SessionBudgetSpent == Len(pcs) >= MaxPCs \/ newSessionRequests >= MaxRequests

C9_FatalStateRebuilds ==
  /\ [](\A p \in DOMAIN pcs :
          FatalState(pcs[p]) => ~pcs[p].subscriberOpen /\ pcs[p].isClosed)
  /\ \A p \in 1..MaxPCs :
       [](( /\ p \in DOMAIN pcs
            /\ lastEvent.pc = p
            /\ lastEvent.rebuilt
            /\ lastEvent.name \in {"connectionstatechange",
                                   "iceconnectionstatechange"} )
          => <>(NewerSessionEmitted(p) \/ refCount = 0 \/ SessionBudgetSpent))

\* A session emitted after the connectionState of its predecessor failed.
C9_Witness ==
  /\ Len(pcs) >= 2
  /\ refCount > 0
  /\ NewerSessionEmitted(1)
  /\ lastEvent.name = "session"

(***************************************************************************)
(* C10.  The probation timer.                                              *)
(***************************************************************************)
TimerFired(p) == lastEvent'.name = "iceTimeout" /\ lastEvent'.pc = p

\* The step abandoned session p and handed the error to retryWithBackoff.
RebuildTriggered(p) ==
  /\ pcs[p].subscriberOpen
  /\ ~pcs'[p].subscriberOpen
  /\ source' = "backoff"

World ==
  [calls |-> calls, batches |-> batches, openBatch |-> openBatch,
   jobs |-> jobs, transceivers |-> transceivers, requests |-> requests,
   subs |-> subs, pushed |-> pushed, pulled |-> pulled]

Commit(w) ==
  /\ calls' = w.calls
  /\ batches' = w.batches
  /\ openBatch' = w.openBatch
  /\ jobs' = w.jobs
  /\ transceivers' = w.transceivers
  /\ requests' = w.requests
  /\ subs' = w.subs
  /\ pushed' = w.pushed
  /\ pulled' = w.pulled

Min(S) == CHOOSE x \in S : \A y \in S : x <= y

Max(S) == IF S = {} THEN 0 ELSE CHOOSE x \in S : \A y \in S : x >= y

\* Every macrotask (a fetch response, an SDP operation completing, a timer,
\* an event) runs after the tick that opened a batch has flushed it.
NoOpenBatch == \A k \in DispatcherKinds : openBatch[k] = 0

Settled(job) == job.pc \in {"resolved", "rejected"}

Started(job) == job.pc # "queued" /\ ~Settled(job)

\* A doBulkRequest call: the subscription that made it and its item (the
\* push's transceiver, the pull's track descriptor, the close's mid).
NewCall(k, s, tx, track, mid) ==
  [disp |-> k, sub |-> s, tx |-> tx, track |-> track, mid |-> mid,
   batch |-> 0, state |-> "pending", value |-> 0]

NewBatch(k, i) == [disp |-> k, items |-> <<i>>, fn |-> i, status |-> "open"]

NewJob(b, k, viaScheduler) ==
  [batch |-> b, kind |-> k, scheduled |-> viaScheduler, pc |-> "queued",
   response |-> <<>>, errorCode |-> FALSE, status0 |-> FALSE]

(***************************************************************************)
(* The signaling requests of the three jobs.                               *)
(***************************************************************************)
BatchCalls(w, b) ==
  [n \in 1..Len(w.batches[b].items) |-> w.calls[w.batches[b].items[n]]]

\* Faulty variant of SessionOfJob: a job works with the session that
\* session$ emitted last.
SessionOfJobLatest(w, j) == Len(peerConnection)

\* The peerConnection and sessionId a job works with are those its batchFn
\* closed over: the ones of the subscription that opened the batch.
SessionOfJob(w, j) ==
  w.subs[w.calls[w.batches[w.jobs[j].batch].fn].sub].session

\* Faulty variant of PushRequest: the request lists the transceiver of the caller
\* whose batchFn runs, not every item of the batch.
PushRequestOwnTrackOnly(w, j) ==
  LET b == w.jobs[j].batch IN
  [endpoint |-> "tracks/new", method |-> "POST", kind |-> "push", job |-> j,
   session |-> SessionOfJob(w, j),
   trackNames |-> <<w.subs[w.calls[w.batches[b].fn].sub].name>>,
   tracks |-> <<w.transceivers[w.calls[w.batches[b].fn].tx].mid>>]

\* POST tracks/new of a push: tracks.map(({ trackName, transceiver }) =>
\* ({ trackName, mid: transceiver.mid, location: "local" })).
PushRequest(w, j) ==
  LET items == BatchCalls(w, w.jobs[j].batch) IN
  [endpoint |-> "tracks/new", method |-> "POST", kind |-> "push", job |-> j,
   session |-> SessionOfJob(w, j),
   trackNames |-> [n \in DOMAIN items |-> w.subs[items[n].sub].name],
   tracks |-> [n \in DOMAIN items |-> w.transceivers[items[n].tx].mid]]

\* Faulty variant of PullRequest: the request lists the descriptor of the caller
\* whose batchFn runs, not every item of the batch.
PullRequestOwnTrackOnly(w, j) ==
  LET b == w.jobs[j].batch IN
  [endpoint |-> "tracks/new", method |-> "POST", kind |-> "pull", job |-> j,
   session |-> SessionOfJob(w, j),
   tracks |-> <<w.calls[w.batches[b].fn].track>>]

\* POST tracks/new of a pull: body { tracks }, the batch as it is.
PullRequest(w, j) ==
  LET items == BatchCalls(w, w.jobs[j].batch) IN
  [endpoint |-> "tracks/new", method |-> "POST", kind |-> "pull", job |-> j,
   session |-> SessionOfJob(w, j),
   tracks |-> [n \in DOMAIN items |-> items[n].track]]

\* PUT renegotiate, with the answer.
RenegotiateRequest(w, j) ==
  [endpoint |-> "renegotiate", method |-> "PUT", kind |-> "pull", job |-> j,
   session |-> SessionOfJob(w, j), tracks |-> <<>>]

\* PUT tracks/close: body { tracks: mids, sessionDescription, force: false }.
CloseRequest(w, j) ==
  LET items == BatchCalls(w, w.jobs[j].batch) IN
  [endpoint |-> "tracks/close", method |-> "PUT", kind |-> "close", job |-> j,
   session |-> SessionOfJob(w, j),
   tracks |-> [n \in DOMAIN items |-> items[n].mid]]

RequestsOf(rs, j) == {r \in DOMAIN rs : rs[r].job = j}

(***************************************************************************)
(* FIFOScheduler.                                                          *)
(***************************************************************************)
\* Faulty variant of SchedulerNext: a job starts as soon as it is scheduled, whatever
\* runs.
SchedulerNextNoWait(js) ==
  LET waiting == {j \in DOMAIN js : js[j].scheduled /\ js[j].pc = "queued"}
  IN  IF waiting = {} THEN 0 ELSE Min(waiting)

\* The job the chain runs next: the earliest scheduled job not yet started,
\* once every job before it has settled, resolved or rejected.
SchedulerNext(js) ==
  LET waiting == {j \in DOMAIN js : js[j].scheduled /\ js[j].pc = "queued"}
      running == {j \in DOMAIN js : js[j].scheduled /\ Started(js[j])}
  IN  IF waiting = {} \/ running # {} THEN 0 ELSE Min(waiting)

\* Faulty variant of StartJob: the close job does not look at the
\* connection's state.
StartJobNoClosedCheck(w, j) ==
  LET job == w.jobs[j] IN
  CASE job.kind = "push" -> [w EXCEPT !.jobs[j].pc = "createOffer"]
    [] job.kind = "pull" ->
         [w EXCEPT !.jobs[j].pc = "fetch",
                   !.requests = Append(@, PullRequest(w, j))]
    [] job.kind = "close" ->
         [w EXCEPT
            !.transceivers[w.calls[w.batches[job.batch].fn].tx].stopped = TRUE,
            !.jobs[j].pc = "createOffer"]
    [] OTHER -> [w EXCEPT !.jobs[j].pc = "running"]

\* The synchronous start of job j, up to its first await.
StartJob(w, j) ==
  LET job == w.jobs[j] IN
  CASE job.kind = "push" ->
         \* await peerConnection.createOffer()
         [w EXCEPT !.jobs[j].pc = "createOffer"]
    [] job.kind = "pull" ->
         \* await this.#fetchWithRecordedHistory(.../tracks/new, { tracks })
         [w EXCEPT !.jobs[j].pc = "fetch",
                   !.requests = Append(@, PullRequest(w, j))]
    [] job.kind = "close" ->
         \* the closure's peerConnection and transceiver are those of the
         \* caller whose batchFn the dispatcher invoked
         IF peerConnection[SessionOfJob(w, j)].connectionState = "closed"
         THEN [w EXCEPT !.jobs[j].pc = "bail"]
         ELSE [w EXCEPT
                 !.transceivers[w.calls[w.batches[job.batch].fn].tx].stopped
                    = TRUE,
                 !.jobs[j].pc = "createOffer"]
    [] OTHER -> [w EXCEPT !.jobs[j].pc = "running"]

RunScheduler(w) ==
  LET j == SchedulerNext(w.jobs) IN IF j = 0 THEN w ELSE StartJob(w, j)

\* taskScheduler.schedule(job)
schedule(w, job) == RunScheduler([w EXCEPT !.jobs = Append(@, job)])

\* A job started without the scheduler.
RunUnscheduled(w, job) ==
  StartJob([w EXCEPT !.jobs = Append(@, job)], Len(w.jobs) + 1)

(***************************************************************************)
(* The batchFn each caller passes to doBulkRequest.                        *)
(***************************************************************************)
PushBatchFn(w, b) == schedule(w, NewJob(b, "push", TRUE))

PullBatchFn(w, b) == schedule(w, NewJob(b, "pull", TRUE))

\* Faulty variant of CloseBatchFn: the close runs at once, outside the scheduler.
CloseBatchFnUnscheduled(w, b) == RunUnscheduled(w, NewJob(b, "close", FALSE))

CloseBatchFn(w, b) == schedule(w, NewJob(b, "close", TRUE))

\* The batchFn of SpecDispatch: any asynchronous function.
GenericBatchFn(w, b) == RunUnscheduled(w, NewJob(b, "generic", FALSE))

BatchFn(w, b) ==
  CASE w.batches[b].disp = "push"  -> PushBatchFn(w, b)
    [] w.batches[b].disp = "pull"  -> PullBatchFn(w, b)
    [] w.batches[b].disp = "close" -> CloseBatchFn(w, b)
    [] OTHER                       -> GenericBatchFn(w, b)

(***************************************************************************)
(* BulkRequestDispatcher.                                                  *)
(***************************************************************************)
\* The open batch of dispatcher k is flushed: batchFn(items) is invoked.
Flush(w, k) ==
  LET b == w.openBatch[k] IN
  BatchFn([w EXCEPT !.batches[b].status = "flushed", !.openBatch[k] = 0], b)

\* Faulty variant of doBulkRequest: a full batch is not flushed, the overflow caller
\* joins it.
doBulkRequestNoCapacity(w, k, call) ==
  LET i == Len(w.calls) + 1
      b == IF w.openBatch[k] = 0 THEN Len(w.batches) + 1 ELSE w.openBatch[k]
  IN  [w EXCEPT
         !.calls = Append(@, [call EXCEPT !.batch = b]),
         !.batches = IF w.openBatch[k] = 0
                     THEN Append(@, NewBatch(k, i))
                     ELSE [@ EXCEPT ![b].items = Append(@, i)],
         !.openBatch[k] = b]

\* doBulkRequest(item, batchFn): the item joins the open batch, or opens one
\* whose flush is deferred to the end of the tick; a batch that reaches the
\* capacity is flushed at once.
doBulkRequest(w, k, call) ==
  LET i  == Len(w.calls) + 1
      b  == IF w.openBatch[k] = 0 THEN Len(w.batches) + 1 ELSE w.openBatch[k]
      w1 == [w EXCEPT
               !.calls = Append(@, [call EXCEPT !.batch = b]),
               !.batches = IF w.openBatch[k] = 0
                           THEN Append(@, NewBatch(k, i))
                           ELSE [@ EXCEPT ![b].items = Append(@, i)],
               !.openBatch[k] = b]
  IN  IF Len(w1.batches[b].items) >= capacity[k] THEN Flush(w1, k) ELSE w1

\* The deferred flush, at the end of the tick that opened the batch.
EndOfTick(k) ==
  /\ openBatch[k] # 0
  /\ Commit(Flush(World, k))
  /\ UNCHANGED <<capacity, peerConnection, sessVars, sockVars>>

(***************************************************************************)
(* What each caller does with the outcome of its batch.                    *)
(***************************************************************************)
TransceiverWithMid(ts, sid, mid) ==
  LET found == {t \in DOMAIN ts : ts[t].session = sid /\ ts[t].mid = mid}
  IN  IF mid = 0 \/ found = {} THEN 0 ELSE Min(found)

\* #closeTrackInBulk: bails unless the connection is connected and a
\* transceiver has the mid; otherwise the mid joins the close dispatcher.
closeTrackInBulk(w, s, mid) ==
  LET tx == TransceiverWithMid(w.transceivers, w.subs[s].session, mid) IN
  IF peerConnection[w.subs[s].session].connectionState # "connected" \/ tx = 0
  THEN w
  ELSE doBulkRequest(w, "close", NewCall("close", s, tx, 0, mid))

\* tracks.find((t) => t.mid === transceiver.mid)
PushTrackData(resp, mid) ==
  LET found == {n \in DOMAIN resp : resp[n].mid = mid}
  IN  IF found = {} THEN 0 ELSE resp[Min(found)].mid

\* newTrackResponse.tracks.find((t) => t.trackName === track.trackName &&
\* t.sessionId === track.sessionId)?.mid
PulledTrackData(resp, track) ==
  LET found == {n \in DOMAIN resp : resp[n].track = track}
  IN  IF found = {} THEN 0 ELSE resp[Min(found)].mid

\* The .then / .catch of the push subscription of call i.
PushSettled(w, i, outcome, resp) ==
  LET s   == w.calls[i].sub
      mid == w.transceivers[w.calls[i].tx].mid
      trackData == IF outcome = "resolved" THEN PushTrackData(resp, mid) ELSE 0
      w1  == [w EXCEPT !.calls[i].state = outcome, !.calls[i].value = trackData]
  IN  IF trackData = 0
      THEN \* subscriber.error, which a closed subscriber ignores
           IF w1.subs[s].open
           THEN [w1 EXCEPT !.subs[s].state = "errored", !.subs[s].open = FALSE]
           ELSE w1
      ELSE IF w1.subs[s].open
      THEN \* the probe runs and the teardown is registered
           [w1 EXCEPT !.subs[s].state = "waiting", !.subs[s].mid = mid]
      ELSE \* subscriber.add on a closed subscriber runs the teardown at once
           closeTrackInBulk([w1 EXCEPT !.subs[s].mid = mid,
                                       !.subs[s].state = "closed"], s, mid)

\* The .then of the pull subscription of call i; a rejection has no handler.
PullSettled(w, i, outcome, resp) ==
  LET s   == w.calls[i].sub
      mid == IF outcome = "resolved"
             THEN PulledTrackData(resp, w.calls[i].track) ELSE 0
      w1  == [w EXCEPT !.calls[i].state = outcome, !.calls[i].value = mid]
  IN  IF outcome = "rejected" THEN w1
      ELSE IF mid = 0
      THEN IF w1.subs[s].open
           THEN [w1 EXCEPT !.subs[s].state = "errored", !.subs[s].open = FALSE]
           ELSE w1
      ELSE [w1 EXCEPT !.subs[s].state = "resolving", !.subs[s].mid = mid]

CallSettled(w, i, outcome, resp) ==
  CASE w.calls[i].disp = "push" -> PushSettled(w, i, outcome, resp)
    [] w.calls[i].disp = "pull" -> PullSettled(w, i, outcome, resp)
    [] OTHER -> [w EXCEPT !.calls[i].state = outcome,
                          !.calls[i].value = Len(resp)]

\* Faulty variant of SettleCallers: only the caller whose batchFn ran is settled.
RECURSIVE SettleFirstCallerOnly(_, _, _, _, _)
SettleFirstCallerOnly(w, items, n, outcome, resp) ==
  IF n > Len(items) \/ n > 1 THEN w
  ELSE SettleFirstCallerOnly(CallSettled(w, items[n], outcome, resp),
                             items, n + 1, outcome, resp)

\* Every caller of the batch is settled with the outcome of the invocation.
RECURSIVE SettleCallers(_, _, _, _, _)
SettleCallers(w, items, n, outcome, resp) ==
  IF n > Len(items) THEN w
  ELSE SettleCallers(CallSettled(w, items[n], outcome, resp),
                     items, n + 1, outcome, resp)

\* The job's promise settles: the batch's callers are settled and the
\* scheduler's chain moves on.
SettleJob(w, j, outcome, resp) ==
  LET b  == w.jobs[j].batch
      w1 == [w EXCEPT !.jobs[j].pc = outcome, !.jobs[j].response = resp,
                      !.batches[b].status = outcome]
      w2 == SettleCallers(w1, w1.batches[b].items, 1, outcome, resp)
  IN  IF w.jobs[j].scheduled THEN RunScheduler(w2) ELSE w2

(***************************************************************************)
(* The steps of the jobs after their first await.                          *)
(***************************************************************************)
SdpSteps ==
  {"createOffer", "setLocalDescription", "setRemoteDescription",
   "createAnswer"}

FetchSteps == {"fetch", "renegotiate", "running"}

\* The mids in use on the peer connection of session sid: those of its
\* transceivers and those the SFU has assigned in answers to its jobs.
UsedMids(w, sid) ==
  {w.transceivers[t].mid :
     t \in {u \in DOMAIN w.transceivers : w.transceivers[u].session = sid}}
  \cup
  UNION {{w.jobs[j].response[n].mid : n \in DOMAIN w.jobs[j].response} :
         j \in {i \in DOMAIN w.jobs :
                  w.jobs[i].kind # "generic" /\ SessionOfJob(w, i) = sid}}

\* setLocalDescription(offer) gives a mid to every transceiver of the peer
\* connection that has none.
RECURSIVE AssignMids(_, _, _, _)
AssignMids(ts, sid, t, next) ==
  IF t > Len(ts) THEN ts
  ELSE IF ts[t].session = sid /\ ts[t].mid = 0
       THEN AssignMids([ts EXCEPT ![t].mid = next], sid, t + 1, next + 1)
       ELSE AssignMids(ts, sid, t + 1, next)

\* setRemoteDescription(offer) of a pull surfaces the transceivers of the
\* mids the SFU assigned.
RECURSIVE SurfaceTransceivers(_, _, _, _)
SurfaceTransceivers(ts, sid, resp, n) ==
  IF n > Len(resp) THEN ts
  ELSE SurfaceTransceivers(
         IF TransceiverWithMid(ts, sid, resp[n].mid) # 0 THEN ts
         ELSE Append(ts, [session |-> sid, mid |-> resp[n].mid,
                          stopped |-> FALSE, direction |-> "recvonly",
                          sub |-> 0, bytesSent |-> 0,
                          currentDirection |-> "none"]),
         sid, resp, n + 1)

\* An applied answer makes the negotiated transceivers of the peer
\* connection current: a sender sends only from then on.
Negotiate(ts, sid) ==
  [t \in DOMAIN ts |->
     IF ts[t].session # sid \/ ts[t].mid = 0 THEN ts[t]
     ELSE [ts[t] EXCEPT !.currentDirection =
             IF ts[t].stopped THEN "stopped" ELSE ts[t].direction]]

\* The SFU's answer to a tracks/new: a push echoes the mids it was sent, a
\* pull gets one entry, with a mid of the SFU's choosing, per descriptor.
TracksResponse(w, j) ==
  LET r == w.requests[Max(RequestsOf(w.requests, j))] IN
  IF r.kind = "push"
  THEN [n \in DOMAIN r.tracks |-> [track |-> 0, mid |-> r.tracks[n]]]
  ELSE [n \in DOMAIN r.tracks |->
          [track |-> r.tracks[n],
           mid |-> Max(UsedMids(w, SessionOfJob(w, j))) + n]]

\* The outcomes the environment can give the step job j is waiting on: an
\* SDP operation of a closed connection rejects, of an open one succeeds.
Outcomes(w, j) ==
  LET job == w.jobs[j] IN
  IF job.pc \in SdpSteps
  THEN IF peerConnection[SessionOfJob(w, j)].connectionState = "closed"
       THEN {"fail"} ELSE {"ok"}
  ELSE IF job.pc = "fetch" /\ job.kind = "pull"
  THEN {"ok", "renegotiation", "errorCode", "throw", "redirect"}
  ELSE IF job.pc \in FetchSteps
  THEN {"ok", "errorCode", "throw", "redirect"}
  ELSE {"ok"}

\* #fetchWithRecordedHistory gets a response of status 0 (the opaque
\* redirect of redirect: "manual"): it alerts and calls location.reload(),
\* and then fails to read the body, which the response does not have.
Status0(w, j) ==
  SettleJob([w EXCEPT !.jobs[j].status0 = TRUE], j, "rejected", <<>>)

PushStep(w, j, o) ==
  LET job == w.jobs[j] IN
  CASE o \in {"fail", "throw"} -> SettleJob(w, j, "rejected", <<>>)
    [] o = "redirect" -> Status0(w, j)
    [] job.pc = "createOffer" /\ o = "ok" ->
         [w EXCEPT !.jobs[j].pc = "setLocalDescription"]
    [] job.pc = "setLocalDescription" /\ o = "ok" ->
         LET sid == SessionOfJob(w, j)
             w1  == [w EXCEPT !.transceivers =
                       AssignMids(@, sid, 1, Max(UsedMids(w, sid)) + 1)]
         IN  [w1 EXCEPT !.requests = Append(@, PushRequest(w1, j)),
                        !.jobs[j].pc = "fetch"]
    [] job.pc = "fetch" /\ o = "ok" ->
         [w EXCEPT !.jobs[j].response = TracksResponse(w, j),
                   !.jobs[j].pc = "setRemoteDescription"]
    [] job.pc = "fetch" /\ o = "errorCode" ->
         \* if (!response.errorCode) is false: no setRemoteDescription
         SettleJob([w EXCEPT !.jobs[j].errorCode = TRUE], j, "resolved",
                   TracksResponse(w, j))
    [] OTHER ->
         SettleJob([w EXCEPT !.transceivers =
                                Negotiate(@, SessionOfJob(w, j))],
                   j, "resolved",
                   job.response)

PullStep(w, j, o) ==
  LET job == w.jobs[j] IN
  CASE o = "redirect" -> Status0(w, j)
    [] o \in {"fail", "throw", "errorCode"} ->
         \* if (response.errorCode) throw new Error(...)
         SettleJob([w EXCEPT !.jobs[j].errorCode = (o = "errorCode")], j,
                   "rejected", <<>>)
    [] job.pc = "fetch" /\ o = "ok" ->
         SettleJob(w, j, "resolved", TracksResponse(w, j))
    [] job.pc = "fetch" /\ o = "renegotiation" ->
         [w EXCEPT !.jobs[j].response = TracksResponse(w, j),
                   !.jobs[j].pc = "setRemoteDescription"]
    [] job.pc = "setRemoteDescription" ->
         [w EXCEPT !.transceivers =
                     SurfaceTransceivers(@, SessionOfJob(w, j),
                                         job.response, 1),
                   !.jobs[j].pc = "createAnswer"]
    [] job.pc = "createAnswer" ->
         [w EXCEPT !.jobs[j].pc = "setLocalDescription"]
    [] job.pc = "setLocalDescription" ->
         [w EXCEPT !.transceivers = Negotiate(@, SessionOfJob(w, j)),
                   !.requests = Append(@, RenegotiateRequest(w, j)),
                   !.jobs[j].pc = "renegotiate"]
    [] OTHER -> SettleJob(w, j, "resolved", job.response)

CloseStep(w, j, o) ==
  LET job == w.jobs[j] IN
  CASE o = "redirect" -> Status0(w, j)
    [] o \in {"fail", "throw", "errorCode"} ->
         SettleJob(w, j, "rejected", <<>>)
    [] job.pc = "createOffer" ->
         [w EXCEPT !.jobs[j].pc = "setLocalDescription"]
    [] job.pc = "setLocalDescription" ->
         LET sid == SessionOfJob(w, j)
             w1  == [w EXCEPT !.transceivers =
                       AssignMids(@, sid, 1, Max(UsedMids(w, sid)) + 1)]
         IN  [w1 EXCEPT !.requests = Append(@, CloseRequest(w1, j)),
                        !.jobs[j].pc = "fetch"]
    [] job.pc = "fetch" ->
         [w EXCEPT !.jobs[j].pc = "setRemoteDescription"]
    [] job.pc = "setRemoteDescription" ->
         SettleJob([w EXCEPT !.transceivers =
                                Negotiate(@, SessionOfJob(w, j))],
                   j, "resolved",
                   <<>>)
    [] OTHER -> SettleJob(w, j, "resolved", <<>>)

\* The batchFn of SpecDispatch resolves with a value or rejects.
GenericStep(w, j, o) ==
  IF o = "throw" THEN SettleJob(w, j, "rejected", <<>>)
  ELSE SettleJob(w, j, "resolved",
                 IF o = "ok" THEN <<[track |-> 0, mid |-> 0]>> ELSE <<>>)

(***************************************************************************)
(* SpecSignal: the subscriptions of one peer connection and the jobs they  *)
(* cause.                                                                  *)
(***************************************************************************)
\* The connection reaches "connected", which it can once an offer and its
\* answer have been applied.
PeerConnected(p) ==
  /\ NoOpenBatch
  /\ peerConnection[p].connectionState = "new"
  /\ \E t \in DOMAIN transceivers :
       /\ transceivers[t].session = p
       /\ transceivers[t].currentDirection # "none"
  /\ peerConnection' =
       [peerConnection EXCEPT ![p].connectionState = "connected"]
  /\ UNCHANGED <<capacity, calls, batches, openBatch, jobs, transceivers,
                 requests, subs, sessVars, trkVars, sockVars>>

\* subscriber.add(() => peerConnection.close()) of the session.
SessionTeardown(p) ==
  /\ peerConnection[p].connectionState # "closed"
  /\ peerConnection' =
       [peerConnection EXCEPT ![p].connectionState = "closed"]
  /\ UNCHANGED <<capacity, calls, batches, openBatch, jobs, transceivers,
                 requests, subs, sessVars, trkVars, sockVars>>

\* The session session$ replays: the last one emitted.
LatestSession == Len(peerConnection)

\* peerConnection.addTransceiver(track, {direction: "sendonly"}) on the peer
\* connection of session sid, for subscription s.
addTransceiver(w, sid, s) ==
  [w EXCEPT !.transceivers =
     Append(@, [session |-> sid, mid |-> 0, stopped |-> FALSE,
                direction |-> "sendonly", sub |-> s, bytesSent |-> 0,
                currentDirection |-> "none"])]

\* The #pushTrackInBulk observable is subscribed as s, closing over the
\* session, the transceiver and the stable id, and calls the push
\* dispatcher.
pushTrackInBulk(w, s, sid, stableId, tx) ==
  doBulkRequest(
    [w EXCEPT !.subs[s] = [kind |-> "push", state |-> "pending",
                           open |-> TRUE, session |-> sid,
                           name |-> stableId, tx |-> tx, track |-> 0,
                           mid |-> 0, emitted |-> 0]],
    "push", NewCall("push", s, tx, 0, 0))

\* The #pullTrackInBulk observable is subscribed as s, closing over the
\* session, and calls the pull dispatcher with the descriptor of remote
\* track t.
pullTrackInBulk(w, s, sid, t) ==
  doBulkRequest(
    [w EXCEPT !.subs[s] = [kind |-> "pull", state |-> "pending",
                           open |-> TRUE, session |-> sid, name |-> 0,
                           tx |-> 0, track |-> t, mid |-> 0,
                           emitted |-> 0]],
    "pull", NewCall("pull", s, 0, t, 0))

\* push(): addTransceiver, then the #pushTrackInBulk observable is
\* subscribed and calls the push dispatcher.
SubscribePush(s) ==
  /\ subs[s].kind = "none"
  /\ peerConnection[LatestSession].connectionState # "closed"
  /\ Commit(pushTrackInBulk(addTransceiver(World, LatestSession, s),
                            s, LatestSession, s, Len(transceivers) + 1))
  /\ UNCHANGED <<capacity, peerConnection, sessVars, sockVars>>

\* pull(): the #pullTrackInBulk observable is subscribed and calls the pull
\* dispatcher with the descriptor of remote track t.
SubscribePull(s, t) ==
  /\ subs[s].kind = "none"
  /\ Commit(pullTrackInBulk(World, s, LatestSession, t))
  /\ UNCHANGED <<capacity, peerConnection, sessVars, sockVars>>

\* Subscription s is unsubscribed: the teardown runs if it is registered.
unsubscribe(w, s) ==
  LET w1 == [w EXCEPT !.subs[s].open = FALSE] IN
  IF w.subs[s].state \in {"waiting", "live"}
  THEN closeTrackInBulk([w1 EXCEPT !.subs[s].state = "closed"], s,
                        w.subs[s].mid)
  ELSE w1

\* The subscription is unsubscribed: the teardown runs if it is registered.
Unsubscribe(s) ==
  /\ subs[s].open
  /\ Commit(unsubscribe(World, s))
  /\ UNCHANGED <<capacity, peerConnection, sessVars, sockVars>>

\* One await of job j completes with outcome o.
JobStep(j, o) ==
  /\ NoOpenBatch
  /\ j \in DOMAIN jobs
  /\ Started(jobs[j])
  /\ o \in Outcomes(World, j)
  /\ Commit(CASE jobs[j].kind = "push"  -> PushStep(World, j, o)
              [] jobs[j].kind = "pull"  -> PullStep(World, j, o)
              [] jobs[j].kind = "close" -> CloseStep(World, j, o)
              [] OTHER                  -> GenericStep(World, j, o))
  /\ UNCHANGED <<capacity, peerConnection, sessVars, sockVars>>

\* The sender of transceiver t sends its first bytes.
BytesSent(t) ==
  /\ NoOpenBatch
  /\ t \in DOMAIN transceivers
  /\ peerConnection[transceivers[t].session].connectionState = "connected"
  /\ transceivers[t].currentDirection = "sendonly"
  /\ transceivers[t].bytesSent = 0
  /\ Commit([World EXCEPT !.transceivers[t].bytesSent = 1])
  /\ UNCHANGED <<capacity, peerConnection, sessVars, sockVars>>

\* Faulty variant of DataSent: the metadata is emitted at the first check of
\* the stats, whatever they report.
DataSentUnchecked(s) ==
  /\ NoOpenBatch
  /\ subs[s].kind = "push" /\ subs[s].state = "waiting" /\ subs[s].open
  /\ Commit([World EXCEPT !.subs[s].state = "live", !.subs[s].emitted = 1])
  /\ UNCHANGED <<capacity, peerConnection, sessVars, sockVars>>

\* checkStats of waitForTransceiverToSendData finds an outbound-rtp stat
\* with bytesSent > 0 and the wait is not cancelled: onDataSent emits the
\* metadata.  Any other check leaves everything as it is.
DataSent(s) ==
  /\ NoOpenBatch
  /\ subs[s].kind = "push" /\ subs[s].state = "waiting" /\ subs[s].open
  /\ transceivers[subs[s].tx].bytesSent > 0
  /\ Commit([World EXCEPT !.subs[s].state = "live", !.subs[s].emitted = 1])
  /\ UNCHANGED <<capacity, peerConnection, sessVars, sockVars>>

\* The subscription's batch and the job of that batch (0 if none yet).
JobOfSub(s) ==
  LET cs == {c \in DOMAIN calls :
               calls[c].sub = s /\ calls[c].disp = subs[s].kind}
      js == {j \in DOMAIN jobs : \E c \in cs : jobs[j].batch = calls[c].batch}
  IN  IF js = {} THEN 0 ELSE Min(js)

\* Faulty variant of TrackResolved: the track is delivered as soon as its
\* transceiver exists, without waiting for the batch to resolve.
TrackResolvedEarly(s) ==
  /\ NoOpenBatch
  /\ subs[s].kind = "pull" /\ subs[s].state \in {"pending", "resolving"}
  /\ subs[s].open
  /\ JobOfSub(s) # 0
  /\ LET mid == PulledTrackData(jobs[JobOfSub(s)].response, subs[s].track)
     IN  /\ TransceiverWithMid(transceivers, subs[s].session, mid) # 0
         /\ Commit([World EXCEPT !.subs[s].state = "live",
                                 !.subs[s].mid = mid,
                                 !.subs[s].emitted = 1])
  /\ UNCHANGED <<capacity, peerConnection, sessVars, sockVars>>

\* trackInfo.resolvedTrack.then, attached once the batch has resolved:
\* resolveTransceiver has found the transceiver of the mid, the track is
\* emitted and the teardown registered, which runs at once if the
\* subscriber is closed.
TrackResolved(s) ==
  /\ NoOpenBatch
  /\ subs[s].kind = "pull" /\ subs[s].state = "resolving"
  /\ TransceiverWithMid(transceivers, subs[s].session, subs[s].mid) # 0
  /\ IF subs[s].open
     THEN Commit([World EXCEPT !.subs[s].state = "live",
                               !.subs[s].emitted = 1])
     ELSE Commit(closeTrackInBulk([World EXCEPT !.subs[s].state = "closed"],
                                  s, subs[s].mid))
  /\ UNCHANGED <<capacity, peerConnection, sessVars, sockVars>>

\* resolveTransceiver's timeout rejects: subscriber.error, which a closed
\* subscriber ignores; no teardown was registered.
ResolveTimeout(s) ==
  /\ NoOpenBatch
  /\ s \in DOMAIN subs
  /\ subs[s].kind = "pull" /\ subs[s].state = "resolving"
  /\ TransceiverWithMid(transceivers, subs[s].session, subs[s].mid) = 0
  /\ Commit([World EXCEPT !.subs[s].state = "errored",
                          !.subs[s].open = FALSE])
  /\ UNCHANGED <<capacity, peerConnection, sessVars, sockVars>>

StepOutcomes ==
  {"ok", "renegotiation", "errorCode", "throw", "fail", "redirect"}

NextSignal ==
  \/ \E p \in DOMAIN peerConnection : PeerConnected(p)
  \/ \E p \in DOMAIN peerConnection : SessionTeardown(p)
  \/ \E s \in Subs : SubscribePush(s)
  \/ \E s \in Subs : \E t \in 1..MaxRemoteTracks : SubscribePull(s, t)
  \/ \E s \in Subs : Unsubscribe(s)
  \/ \E k \in DispatcherKinds : EndOfTick(k)
  \/ \E j \in 1..(2 * MaxSubs) : \E o \in StepOutcomes : JobStep(j, o)
  \/ \E t \in 1..(2 * MaxSubs) : BytesSent(t)
  \/ \E s \in Subs : DataSent(s)
  \/ \E s \in Subs : TrackResolved(s)
  \/ \E s \in Subs : ResolveTimeout(s)

SpecSignal == InitSession /\ [][NextSignal]_vars

(***************************************************************************)
(* SpecDispatch: one BulkRequestDispatcher of capacity 1..MaxCapacity and  *)
(* its callers.                                                            *)
(***************************************************************************)
InitDispatch ==
  /\ SessionIdle
  /\ SocketsIdle
  /\ SignalIdle
  /\ \E n \in 1..MaxCapacity : capacity = [k \in DispatcherKinds |-> n]

\* A caller calls doBulkRequest(item, batchFn) with item c.
Call ==
  /\ Len(calls) < MaxCalls
  /\ Commit(doBulkRequest(World, "generic",
                          NewCall("generic", 0, 0, 0, Len(calls) + 1)))
  /\ UNCHANGED <<capacity, peerConnection, sessVars, sockVars>>

\* The promise batchFn returned settles.
BatchFnSettles(j, o) ==
  /\ j \in DOMAIN jobs
  /\ Started(jobs[j])
  /\ Commit(GenericStep(World, j, o))
  /\ UNCHANGED <<capacity, peerConnection, sessVars, sockVars>>

NextDispatch ==
  \/ Call
  \/ EndOfTick("generic")
  \/ \E j \in 1..MaxCalls : \E o \in {"ok", "errorCode", "throw"} :
       BatchFnSettles(j, o)

SpecDispatch == InitDispatch /\ [][NextDispatch]_vars

(***************************************************************************)
(* SpecTracks: one push() and one pull() pipeline over the sessions that   *)
(* session$ emits.  Each #pushTrackInBulk / #pullTrackInBulk subscription  *)
(* the pipelines make is an entry of subs with the session, transceiver    *)
(* and stable id it closed over.                                           *)
(***************************************************************************)
InitTracks ==
  /\ SessionIdle
  /\ SocketsIdle
  /\ TracksIdle
  /\ capacity = [k \in DispatcherKinds |-> DispatcherCapacity]
  /\ calls = <<>>
  /\ batches = <<>>
  /\ openBatch = [k \in DispatcherKinds |-> 0]
  /\ jobs = <<>>
  /\ peerConnection = <<>>
  /\ transceivers = <<>>
  /\ requests = <<>>
  /\ subs = <<>>

\* switchMap unsubscribes the inner subscription it holds, if any.
SwitchUnsubscribe(w, inner) ==
  IF inner # 0 /\ w.subs[inner].open THEN unsubscribe(w, inner) ELSE w

\* The outer combineLatest of push() emits once each of its inputs has a
\* value: the tap acts on the sender of the latest transceiver only, and
\* the map emits the latest metadata of pushedTrackData$ without its mid.
PushEmit(w) ==
  IF w.pushed.hasData /\ w.pushed.tx # 0 /\ w.pushed.track # 0
  THEN [w EXCEPT !.pushed.out = CleanedTrackData(w.pushed.trackData),
                 !.pushed.emitted = 1]
  ELSE w

\* Faulty variant of StableId: an id is minted whenever a transceiver is
\* created.
StableIdPerTransceiver(w) == Len(w.transceivers) + 1

\* The value of stableId$ that combineLatest holds: take(1) completes it
\* after the id minted at the first track.
StableId(w) == w.pushed.stableId

\* combineLatest([stableId$, session$]) emits with session sid: the map
\* adds a transceiver to its peer connection, which throws on a closed one;
\* switchMap leaves the previous #pushTrackInBulk and subscribes a new one
\* with the same stable id; then the outer combineLatest sees the new
\* transceiver.
PushOnSession(w, sid, closed) ==
  IF closed
  THEN [SwitchUnsubscribe(w, w.pushed.inner) EXCEPT !.pushed.state = "errored"]
  ELSE LET s  == Len(w.subs) + 1
           tx == Len(w.transceivers) + 1
           w1 == addTransceiver(SwitchUnsubscribe(w, w.pushed.inner), sid, s)
           w2 == pushTrackInBulk([w1 EXCEPT !.subs = Append(@, IdleSub)],
                                 s, sid, StableId(w), tx)
       IN  PushEmit([w2 EXCEPT !.pushed.tx = tx, !.pushed.inner = s])

\* combineLatest([session$, trackData$]) of pull() emits with session sid:
\* switchMap leaves the previous #pullTrackInBulk and subscribes a new one.
PullOnSession(w, sid) ==
  LET s  == Len(w.subs) + 1
      w1 == SwitchUnsubscribe(w, w.pulled.inner)
      w2 == pullTrackInBulk([w1 EXCEPT !.subs = Append(@, IdleSub)],
                            s, sid, w.pulled.trackData)
  IN  [w2 EXCEPT !.pulled.inner = s]

\* PUT tracks/update: { tracks: [{ ...trackMetadata, mid: transceiver.mid,
\* simulcast: { preferredRid } }] } to the session the combineLatest holds.
UpdateRequest(w, sid, tx, rid) ==
  [endpoint |-> "tracks/update", method |-> "PUT", kind |-> "update",
   job |-> 0, session |-> sid, tracks |-> <<w.transceivers[tx].mid>>,
   rid |-> rid]

\* Faulty variant of PullTap: the update is sent whatever the preferred rid.
PullTapAlways(w, sid) ==
  LET tx == w.pulled.track
      w1 == IF w.transceivers[tx].session = sid
            THEN [w EXCEPT !.requests =
                    Append(@, UpdateRequest(w, sid, tx,
                                            w.pulled.subsequentPreferredRid))]
            ELSE w
  IN  [w1 EXCEPT !.pulled.emitted = 1]

\* The outer combineLatest of pull() emits [pulled track, session sid,
\* subsequent preferred rid]: the tap sends an update if the rid is defined
\* and a transceiver of the session's peer connection receives the track;
\* the map emits the track.
PullTap(w, sid) ==
  LET rid == w.pulled.subsequentPreferredRid
      tx  == w.pulled.track
      w1  == IF rid # 0 /\ w.transceivers[tx].session = sid
             THEN [w EXCEPT !.requests =
                     Append(@, UpdateRequest(w, sid, tx, rid))]
             ELSE w
  IN  [w1 EXCEPT !.pulled.emitted = 1]

PullEmit(w, sid) == IF w.pulled.track # 0 THEN PullTap(w, sid) ELSE w

\* The last subscriber of session$ leaves: its teardown closes the peer
\* connection.
SessionRefCount(w) ==
  Cardinality({k \in {"pushed", "pulled"} : w[k].state = "subscribed"})

ClosedIfUnused(w) ==
  IF SessionRefCount(w) = 0 /\ LatestSession # 0
  THEN [peerConnection EXCEPT ![LatestSession].connectionState = "closed"]
  ELSE peerConnection

Pipelines == Cardinality({k \in {"pushed", "pulled"} : World[k].state # "idle"})

\* The observable push() returned is subscribed.
SubscribePushPipeline ==
  /\ pushed.state = "idle"
  /\ Pipelines < MaxPipelines
  /\ Commit([World EXCEPT !.pushed.state = "subscribed"])
  /\ UNCHANGED <<capacity, peerConnection, sessVars, sockVars>>

\* sourceTrack$ emits a track: the first one mints the stable id and, with
\* a session at hand, starts the push; a later one replaces the track.
SourceTrackEmits ==
  /\ NoOpenBatch
  /\ pushed.state = "subscribed"
  /\ pushed.track < MaxTracks
  /\ Len(subs) < MaxInner
  /\ LET first == pushed.stableId = 0
         w1 == [World EXCEPT
                  !.pushed.track = @ + 1,
                  !.pushed.minted = IF first THEN @ + 1 ELSE @,
                  !.pushed.stableId = IF first THEN pushed.minted + 1 ELSE @]
     IN  IF first /\ LatestSession # 0
         THEN Commit(PushOnSession(
                w1, LatestSession,
                peerConnection[LatestSession].connectionState = "closed"))
         ELSE Commit(PushEmit(w1))
  /\ UNCHANGED <<capacity, peerConnection, sessVars, sockVars>>

\* sendEncodings$ emits again: setParameters on the sender, and the
\* metadata is emitted again.
SendEncodingsEmits ==
  /\ NoOpenBatch
  /\ pushed.state = "subscribed"
  /\ pushed.encodings < MaxEncodings
  /\ Commit(PushEmit([World EXCEPT !.pushed.encodings = @ + 1]))
  /\ UNCHANGED <<capacity, peerConnection, sessVars, sockVars>>

\* onDataSent of the push's current #pushTrackInBulk: it emits the
\* metadata { ...trackData, sessionId, location: "remote" }, which reaches
\* the outer combineLatest through switchMap.
PushedTrackData(s) ==
  /\ NoOpenBatch
  /\ s \in DOMAIN subs
  /\ subs[s].kind = "push" /\ subs[s].state = "waiting" /\ subs[s].open
  /\ transceivers[subs[s].tx].bytesSent > 0
  /\ Commit(PushEmit([World EXCEPT
       !.subs[s].state = "live",
       !.subs[s].emitted = 1,
       !.pushed.hasData = TRUE,
       !.pushed.trackData = [trackName |-> subs[s].name, mid |-> subs[s].mid,
                             sessionId |-> subs[s].session,
                             location |-> "remote"]]))
  /\ UNCHANGED <<capacity, peerConnection, sessVars, sockVars>>

\* The observable pull() returned is subscribed; preferredRid$ has the
\* value rid (0: undefined).
SubscribePullPipeline(rid) ==
  /\ pulled.state = "idle"
  /\ Pipelines < MaxPipelines
  /\ Commit([World EXCEPT !.pulled.state = "subscribed",
                          !.pulled.preferredRid = rid])
  /\ UNCHANGED <<capacity, peerConnection, sessVars, sockVars>>

\* trackData$ emits a descriptor that differs from the last one.
TrackDataEmits ==
  /\ NoOpenBatch
  /\ pulled.state = "subscribed"
  /\ pulled.trackData < MaxDescriptors
  /\ Len(subs) < MaxInner
  /\ LET w1 == [World EXCEPT !.pulled.trackData = @ + 1] IN
     IF LatestSession # 0
     THEN Commit(PullOnSession(w1, LatestSession))
     ELSE Commit(w1)
  /\ UNCHANGED <<capacity, peerConnection, sessVars, sockVars>>

\* preferredRid$ emits a value after its first (0: undefined).
PreferredRidEmits(rid) ==
  /\ NoOpenBatch
  /\ pulled.state = "subscribed"
  /\ pulled.ridValues < MaxRidValues
  /\ Commit(PullEmit([World EXCEPT !.pulled.preferredRid = rid,
                                   !.pulled.subsequentPreferredRid = rid,
                                   !.pulled.ridValues = @ + 1],
                     LatestSession))
  /\ UNCHANGED <<capacity, peerConnection, sessVars, sockVars>>

\* trackInfo.resolvedTrack.then of a #pullTrackInBulk: the track is
\* emitted, which reaches the outer combineLatest through switchMap, and
\* the teardown is registered, which runs at once if switchMap has left.
PulledTrack(s) ==
  /\ NoOpenBatch
  /\ s \in DOMAIN subs
  /\ subs[s].kind = "pull" /\ subs[s].state = "resolving"
  /\ TransceiverWithMid(transceivers, subs[s].session, subs[s].mid) # 0
  /\ IF subs[s].open
     THEN Commit(PullTap([World EXCEPT
            !.subs[s].state = "live",
            !.subs[s].emitted = 1,
            !.pulled.track = TransceiverWithMid(transceivers, subs[s].session,
                                                subs[s].mid)],
            LatestSession))
     ELSE Commit(closeTrackInBulk([World EXCEPT !.subs[s].state = "closed"],
                                  s, subs[s].mid))
  /\ UNCHANGED <<capacity, peerConnection, sessVars, sockVars>>

\* session$ emits a new session, which it does once the peer connection of
\* the previous one is closed: every subscriber of session$ runs in turn.
SessionEmits ==
  /\ NoOpenBatch
  /\ Len(peerConnection) < MaxSessions
  /\ pushed.state = "subscribed" \/ pulled.state = "subscribed"
  /\ LatestSession # 0
       => peerConnection[LatestSession].connectionState = "closed"
  /\ LET sid == LatestSession + 1
         w1  == IF pushed.state = "subscribed" /\ pushed.stableId # 0
                THEN PushOnSession(World, sid, FALSE) ELSE World
         w2  == IF pulled.state = "subscribed" /\ pulled.trackData # 0
                THEN PullEmit(PullOnSession(w1, sid), sid) ELSE w1
     IN  Commit(w2)
  /\ peerConnection' = Append(peerConnection, [connectionState |-> "new"])
  /\ UNCHANGED <<capacity, sessVars, sockVars>>

\* retryWithBackoff resubscribes the #pushTrackInBulk or #pullTrackInBulk
\* that errored, unless switchMap has left it meanwhile.
RetryInner(s) ==
  /\ NoOpenBatch
  /\ s \in DOMAIN subs
  /\ subs[s].state = "errored"
  /\ Len(subs) < MaxInner
  /\ LET n  == Len(subs) + 1
         w1 == [World EXCEPT !.subs = Append(@, IdleSub)]
     IN  \/ /\ pushed.state = "subscribed" /\ pushed.inner = s
            /\ Commit([pushTrackInBulk(w1, n, subs[s].session, subs[s].name,
                                       subs[s].tx)
                         EXCEPT !.pushed.inner = n])
         \/ /\ pulled.state = "subscribed" /\ pulled.inner = s
            /\ Commit([pullTrackInBulk(w1, n, subs[s].session, subs[s].track)
                         EXCEPT !.pulled.inner = n])
  /\ UNCHANGED <<capacity, peerConnection, sessVars, sockVars>>

\* The subscriber of push() unsubscribes: #pushTrackInBulk is left, and
\* session$ too.
UnsubscribePushPipeline ==
  /\ NoOpenBatch
  /\ pushed.state = "subscribed"
  /\ LET w1 == [SwitchUnsubscribe(World, pushed.inner)
                  EXCEPT !.pushed.state = "unsubscribed"]
     IN  Commit(w1) /\ peerConnection' = ClosedIfUnused(w1)
  /\ UNCHANGED <<capacity, sessVars, sockVars>>

\* The subscriber of pull() unsubscribes.
UnsubscribePullPipeline ==
  /\ NoOpenBatch
  /\ pulled.state = "subscribed"
  /\ LET w1 == [SwitchUnsubscribe(World, pulled.inner)
                  EXCEPT !.pulled.state = "unsubscribed"]
     IN  Commit(w1) /\ peerConnection' = ClosedIfUnused(w1)
  /\ UNCHANGED <<capacity, sessVars, sockVars>>

NextTracks ==
  \/ SubscribePushPipeline
  \/ SourceTrackEmits
  \/ SendEncodingsEmits
  \/ \E rid \in 0..1 : SubscribePullPipeline(rid)
  \/ TrackDataEmits
  \/ \E rid \in 0..1 : PreferredRidEmits(rid)
  \/ SessionEmits
  \/ \E p \in DOMAIN peerConnection : PeerConnected(p)
  \/ \E p \in DOMAIN peerConnection : SessionTeardown(p)
  \/ \E k \in DispatcherKinds : EndOfTick(k)
  \/ \E j \in DOMAIN jobs :
       \E o \in StepOutcomes \ {"errorCode", "redirect"} : JobStep(j, o)
  \/ \E t \in DOMAIN transceivers : BytesSent(t)
  \/ \E s \in DOMAIN subs : PushedTrackData(s)
  \/ \E s \in DOMAIN subs : PulledTrack(s)
  \/ \E s \in DOMAIN subs : ResolveTimeout(s)
  \/ \E s \in DOMAIN subs : RetryInner(s)
  \/ UnsubscribePushPipeline
  \/ UnsubscribePullPipeline

SpecTracks == InitTracks /\ [][NextTracks]_vars

(***************************************************************************)
(* Claims about the dispatchers, the scheduler and the signaling jobs.     *)
(***************************************************************************)
BatchJobs(b) == {j \in DOMAIN jobs : jobs[j].batch = b}

BatchItems(b) == {c \in DOMAIN calls : calls[c].batch = b}

BatchesOf(k) == {b \in DOMAIN batches : batches[b].disp = k}

TracksNewOf(j) ==
  {r \in DOMAIN requests :
     requests[r].job = j /\ requests[r].endpoint = "tracks/new"}

ItemMids(b) ==
  [n \in DOMAIN batches[b].items |->
     transceivers[calls[batches[b].items[n]].tx].mid]

ItemTracks(b) ==
  [n \in DOMAIN batches[b].items |-> calls[batches[b].items[n]].track]

\* A call made to dispatcher k while a batch of k is open joins that batch.
JoinsOpenBatch(k) ==
  \A c \in DOMAIN calls' \ DOMAIN calls :
    calls'[c].disp = k /\ openBatch[k] # 0 => calls'[c].batch = openBatch[k]

\* C1 as stated: every push batch gets exactly one POST tracks/new, listing
\* the mid of every transceiver of the batch, once its job has run.
C1_ExactlyOnePushRequest ==
  \A b \in BatchesOf("push") : \A j \in BatchJobs(b) :
    Settled(jobs[j]) =>
      /\ Cardinality(TracksNewOf(j)) = 1
      /\ \A r \in TracksNewOf(j) : requests[r].tracks = ItemMids(b)

\* C1: the push subscriptions that reach the dispatcher in one tick form one
\* batch with one job; the job issues at most one POST tracks/new, which
\* lists the mid of every transceiver of the batch; it issues exactly one
\* unless createOffer or setLocalDescription rejected, which they do on a
\* closed connection, and then it issues none.
C1_OnePushRequestPerBatch ==
  /\ [](\A b \in BatchesOf("push") :
          /\ Cardinality(BatchJobs(b)) =
               IF batches[b].status = "open" THEN 0 ELSE 1
          /\ \A j \in BatchJobs(b) :
               /\ Cardinality(TracksNewOf(j)) <= 1
               /\ \A r \in TracksNewOf(j) :
                    /\ requests[r].method = "POST"
                    /\ requests[r].tracks = ItemMids(b)
                    /\ \A n \in DOMAIN requests[r].tracks :
                         requests[r].tracks[n] # 0
               /\ jobs[j].pc \in {"fetch", "setRemoteDescription", "resolved"}
                    => Cardinality(TracksNewOf(j)) = 1
               /\ Settled(jobs[j]) /\ TracksNewOf(j) = {}
                    => /\ jobs[j].pc = "rejected"
                       /\ peerConnection[SessionOfJob(World, j)]
                            .connectionState = "closed")
  /\ [][JoinsOpenBatch("push")]_vars

C1_Witness ==
  \E b \in BatchesOf("push") : \E j \in BatchJobs(b) :
    /\ Len(batches[b].items) >= 2
    /\ jobs[j].pc = "resolved"
    /\ Cardinality(TracksNewOf(j)) = 1

\* C2: the pull subscriptions that reach the dispatcher in one tick form one
\* batch with one job, and the job, from the moment it starts, has issued
\* exactly one POST tracks/new that lists the descriptor of every item of
\* the batch; a job that has not started has issued none.
C2_OnePullRequestPerBatch ==
  /\ [](\A b \in BatchesOf("pull") :
          /\ Cardinality(BatchJobs(b)) =
               IF batches[b].status = "open" THEN 0 ELSE 1
          /\ \A j \in BatchJobs(b) :
               /\ jobs[j].pc = "queued" => TracksNewOf(j) = {}
               /\ jobs[j].pc # "queued" => Cardinality(TracksNewOf(j)) = 1
               /\ \A r \in TracksNewOf(j) :
                    /\ requests[r].method = "POST"
                    /\ requests[r].tracks = ItemTracks(b))
  /\ [][JoinsOpenBatch("pull")]_vars

C2_Witness ==
  \E b \in BatchesOf("pull") : \E j \in BatchJobs(b) :
    /\ Len(batches[b].items) >= 2
    /\ batches[b].items[1] # batches[b].items[2]
    /\ ItemTracks(b)[1] # ItemTracks(b)[2]
    /\ Settled(jobs[j])
    /\ Cardinality(TracksNewOf(j)) = 1

Scheduled == {j \in DOMAIN jobs : jobs[j].scheduled}

\* C3: the jobs of the scheduler start in submission order, a job starts
\* only when every job submitted before it has settled, and a job waits
\* only while an earlier job runs: a rejected job blocks nothing.
C3_FifoOrder ==
  /\ \A i, j \in Scheduled :
       i < j /\ jobs[j].pc # "queued" => Settled(jobs[i])
  /\ \A j \in Scheduled :
       jobs[j].pc = "queued" =>
         \E i \in Scheduled : i < j /\ Started(jobs[i])

C3_Witness ==
  \E i, j \in Scheduled :
    i < j /\ jobs[i].pc = "rejected" /\ jobs[j].pc \notin {"queued", "bail"}

SignalingJobs ==
  {j \in DOMAIN jobs : jobs[j].kind \in {"push", "pull", "close"}}

\* The job runs an SDP step or waits for the answer to a signaling request.
Busy(job) == Started(job) /\ job.pc # "bail"

\* The job is between its first SDP step and the completion of its last.
InSdpWindow(job) ==
  Busy(job) /\ ~(job.kind = "pull" /\ job.pc = "fetch")

\* C4: while one signaling operation is between its first and its last SDP
\* step no other operation runs an SDP step or a signaling request, and the
\* operations start in the order they were submitted.
C4_SdpStepsNeverInterleave ==
  /\ \A i, j \in SignalingJobs :
       i # j => ~(InSdpWindow(jobs[i]) /\ Busy(jobs[j]))
  /\ \A i, j \in SignalingJobs :
       i < j /\ jobs[j].pc # "queued" => jobs[i].pc # "queued"

C4_Witness ==
  \E i, j \in SignalingJobs :
    /\ i < j
    /\ jobs[i].kind = "push" /\ jobs[j].kind = "close"
    /\ jobs[i].pc = "setRemoteDescription"
    /\ jobs[j].pc = "queued"

\* C5: batchFn is invoked once per flushed batch, on the items of the batch,
\* and every caller of the batch is settled as that invocation settles: the
\* same value if it resolves, rejected if it rejects.
C5_OneInvocationOneOutcome ==
  \A b \in DOMAIN batches :
    /\ Cardinality(BatchJobs(b)) = IF batches[b].status = "open" THEN 0 ELSE 1
    /\ {batches[b].items[n] : n \in DOMAIN batches[b].items} = BatchItems(b)
    /\ \A c \in BatchItems(b) :
         IF \E j \in BatchJobs(b) : Settled(jobs[j])
         THEN \A j \in BatchJobs(b) :
                /\ calls[c].state = jobs[j].pc
                /\ calls[c].value = Len(jobs[j].response)
         ELSE calls[c].state = "pending"

C5_Witness ==
  \E b1, b2 \in DOMAIN batches :
    /\ Len(batches[b1].items) >= 2 /\ batches[b1].status = "rejected"
    /\ Len(batches[b2].items) >= 2 /\ batches[b2].status = "resolved"
    /\ \A c \in BatchItems(b2) : calls[c].value = 1

\* C6: no batch holds more than the capacity; a batch that holds the
\* capacity is flushed, so the next caller opens another; every item is in
\* exactly one batch; a caller is rejected only when the batchFn of its
\* batch rejected.
C6_CapacityOverflow ==
  /\ \A b \in DOMAIN batches :
       /\ Len(batches[b].items) <= capacity[batches[b].disp]
       /\ Len(batches[b].items) = capacity[batches[b].disp]
            => batches[b].status # "open"
  /\ \A c \in DOMAIN calls :
       Cardinality({<<b, n>> \in (DOMAIN batches) \X (1..Len(calls)) :
                      n \in DOMAIN batches[b].items
                      /\ batches[b].items[n] = c}) = 1
  /\ \A c \in DOMAIN calls :
       calls[c].state = "rejected" =>
         \E j \in BatchJobs(calls[c].batch) : jobs[j].pc = "rejected"

C6_Witness ==
  /\ capacity["generic"] >= 2
  /\ Len(calls) > capacity["generic"]
  /\ Len(batches) = 2
  /\ Len(batches[1].items) = capacity["generic"]
  /\ batches[1].status = "flushed"
  /\ batches[2].status = "open"
  /\ \A c \in DOMAIN calls : calls[c].state = "pending"

(***************************************************************************)
(* Claims about the steps inside one push, pull or close.                  *)
(***************************************************************************)
PushSubs == {s \in Subs : subs[s].kind = "push"}

PullSubs == {s \in Subs : subs[s].kind = "pull"}

CloseRequests ==
  {r \in DOMAIN requests : requests[r].endpoint = "tracks/close"}

\* C15: every mid listed in a PUT tracks/close is the mid of a stopped
\* transceiver.
C15_EveryClosedMidStopped ==
  \A r \in CloseRequests : \A n \in DOMAIN requests[r].tracks :
    transceivers[TransceiverWithMid(transceivers, requests[r].session,
                                    requests[r].tracks[n])].stopped

CloseJobs == {j \in DOMAIN jobs : jobs[j].kind = "close"}

\* C16: a close job that finds the connection closed when it starts bails:
\* it creates no offer and issues no request; no PUT tracks/close is issued
\* while the connection is closed.
C16_NoCloseOnClosedConnection ==
  /\ [](\A j \in CloseJobs :
          jobs[j].pc = "bail" => RequestsOf(requests, j) = {})
  /\ [][\A j \in DOMAIN jobs' :
          /\ jobs'[j].kind = "close"
          /\ j \in DOMAIN jobs => jobs[j].pc = "queued"
          /\ jobs'[j].pc # "queued"
          => IF peerConnection[SessionOfJob(World', j)]
                  .connectionState = "closed"
             THEN jobs'[j].pc = "bail" /\ transceivers' = transceivers
             ELSE jobs'[j].pc = "createOffer"]_vars
  /\ [][\A j \in CloseJobs :
          jobs[j].pc = "bail" =>
            /\ jobs'[j].pc \in {"bail", "resolved"}
            /\ RequestsOf(requests', j) = {}]_vars
  /\ [][\A r \in DOMAIN requests' \ DOMAIN requests :
          requests'[r].endpoint = "tracks/close"
          => peerConnection[requests'[r].session].connectionState
               # "closed"]_vars

C16_Witness ==
  \E j \in CloseJobs :
    /\ jobs[j].pc = "resolved"
    /\ RequestsOf(requests, j) = {}
    /\ peerConnection[SessionOfJob(World, j)].connectionState = "closed"

\* C17: whenever the teardown of a subscription runs, a close of the mid of
\* its transceiver is enqueued with the close dispatcher.
C17_TeardownEnqueuesClose ==
  [][\A s \in Subs :
       subs[s].state # "closed" /\ subs'[s].state = "closed"
       => /\ subs'[s].mid # 0
          /\ \E c \in DOMAIN calls' \ DOMAIN calls :
               calls'[c].disp = "close" /\ calls'[c].mid = subs'[s].mid]_vars

PullOrder ==
  <<"fetch", "setRemoteDescription", "createAnswer", "setLocalDescription",
    "renegotiate", "resolved">>

RequestSeqOf(j) ==
  LET rs == SelectSeq([r \in DOMAIN requests |-> r],
                      LAMBDA r : requests[r].job = j)
  IN  [n \in DOMAIN rs |-> <<requests[rs[n]].method, requests[rs[n]].endpoint>>]

\* C19: a pull job takes its steps in the order POST tracks/new,
\* setRemoteDescription, createAnswer, setLocalDescription, PUT renegotiate,
\* skipping none, and a pull subscription has been given its track only when
\* the job has resolved after all of them and the transceiver of the
\* assigned mid exists.
C19_RenegotiationOrder ==
  /\ [](\A s \in PullSubs :
          subs[s].emitted > 0 =>
            /\ JobOfSub(s) # 0
            /\ jobs[JobOfSub(s)].pc = "resolved"
            /\ RequestSeqOf(JobOfSub(s)) =
                 <<(<<"POST", "tracks/new">>), (<<"PUT", "renegotiate">>)>>
            /\ subs[s].mid # 0
            /\ subs[s].mid =
                 PulledTrackData(jobs[JobOfSub(s)].response, subs[s].track)
            /\ TransceiverWithMid(transceivers, subs[s].session,
                                  subs[s].mid) # 0
            /\ transceivers[TransceiverWithMid(transceivers, subs[s].session,
                                               subs[s].mid)]
                 .currentDirection # "none")
  /\ [][\A j \in DOMAIN jobs :
          jobs[j].kind = "pull" /\ jobs'[j].pc # jobs[j].pc
          /\ jobs[j].pc # "queued" /\ jobs[j].pc # "fetch"
          => \/ jobs'[j].pc = "rejected"
             \/ \E n \in 2..5 :
                  jobs[j].pc = PullOrder[n] /\ jobs'[j].pc = PullOrder[n + 1]]_vars

C19_Witness ==
  \E s \in PullSubs :
    /\ subs[s].emitted > 0
    /\ Len(RequestSeqOf(JobOfSub(s))) = 2

\* C20: when the SFU's answer to the job of a push or pull subscription
\* carried an errorCode, the subscription has ended and has emitted nothing.
C20_ErrorCodeErrorsTheStream ==
  \A s \in PushSubs \cup PullSubs :
    JobOfSub(s) # 0 /\ Settled(jobs[JobOfSub(s)])
    /\ jobs[JobOfSub(s)].errorCode
    => ~subs[s].open /\ subs[s].emitted = 0


(***************************************************************************)
(* Claims about push() and pull() across the sessions session$ emits.      *)
(***************************************************************************)
\* C14: every metadata value a push stream emits has no mid field, on its
\* first emission and on every later one.
C14_EmittedMetadataHasNoMid ==
  pushed.emitted > 0 =>
    /\ "mid" \notin DOMAIN pushed.out
    /\ pushed.out = [trackName |-> pushed.trackData.trackName,
                     sessionId |-> pushed.trackData.sessionId,
                     location |-> "remote"]

\* The metadata of the first session is emitted again after session$ has
\* emitted a second session, the track was replaced and the encodings
\* were updated.
C14_Witness ==
  /\ pushed.emitted = 1
  /\ pushed.track = 2
  /\ pushed.encodings = 1
  /\ Len(peerConnection) = 2
  /\ pushed.trackData.mid # 0
  /\ pushed.out.sessionId = 1

PushRequests ==
  {r \in DOMAIN requests :
     requests[r].endpoint = "tracks/new" /\ requests[r].kind = "push"}

\* C12: every tracks/new request of the push carries, as its only
\* trackName, the stable id minted at the first track of the source; no
\* other id is ever minted, whatever the sessions, retries and tracks.
C12_StableIdAcrossRebuilds ==
  /\ [](/\ pushed.minted <= 1
        /\ pushed.stableId = pushed.minted
        /\ pushed.track > 0 <=> pushed.stableId # 0
        /\ \A r \in PushRequests :
             /\ requests[r].trackNames = <<pushed.stableId>>
             /\ pushed.stableId # 0
        /\ \A s \in DOMAIN subs :
             subs[s].kind = "push" => subs[s].name = pushed.stableId)
  /\ [][pushed.stableId # 0 => pushed'.stableId = pushed.stableId]_vars

\* Push requests with the same trackName have gone to three sessions, the
\* last after a second track of the source.
C12_Witness ==
  /\ pushed.track = 2
  /\ \A p \in 1..3 : \E r \in PushRequests :
       /\ requests[r].session = p
       /\ requests[r].trackNames = <<pushed.stableId>>

\* The sessions under which the operations batched into job j started.
StartedUnder(j) ==
  {subs[calls[c].sub].session : c \in BatchItems(jobs[j].batch)}

\* Job j takes a step: it starts, moves on or settles.
JobMoves(j) ==
  /\ j \in DOMAIN jobs'
  /\ j \in DOMAIN jobs => jobs'[j].pc # jobs[j].pc

\* Transceiver t is created or changed, other than by sending.
Mutated(t) ==
  \/ t \notin DOMAIN transceivers
  \/ [transceivers'[t] EXCEPT !.bytesSent = 0]
       # [transceivers[t] EXCEPT !.bytesSent = 0]

\* The pipeline k ("pushed" or "pulled") has an operation to restart.
Live(k) ==
  /\ World[k].state = "subscribed"
  /\ IF k = "pushed" THEN pushed.stableId # 0 ELSE pulled.trackData # 0

\* C11: every signaling request carries the id of the session under which
\* the operations it serves started, and a peer connection is changed only
\* by jobs of operations started under its session and by addTransceiver of
\* the session emitted last; when session$ emits a new session, each live
\* push and pull leaves its operation and starts one under the new session.
C11_SessionsNeverMix ==
  /\ [](/\ \A r \in DOMAIN requests :
             IF requests[r].job # 0
             THEN StartedUnder(requests[r].job) = {requests[r].session}
             ELSE TransceiverWithMid(transceivers, requests[r].session,
                                     requests[r].tracks[1]) # 0
        /\ \A t \in DOMAIN transceivers :
             transceivers[t].sub # 0 =>
               subs[transceivers[t].sub].session = transceivers[t].session
        /\ \A s \in DOMAIN subs :
             subs[s].open => /\ s \in {pushed.inner, pulled.inner}
                             /\ subs[s].session = LatestSession)
  /\ [][\A t \in DOMAIN transceivers' :
          Mutated(t) =>
            \/ /\ t \notin DOMAIN transceivers
               /\ transceivers'[t].sub \notin DOMAIN subs
               /\ transceivers'[t].session = Len(peerConnection')
            \/ \E j \in DOMAIN jobs' :
                 JobMoves(j) /\ StartedUnder(j) = {transceivers'[t].session}
       ]_vars
  /\ [][Len(peerConnection') > Len(peerConnection) =>
          \A k \in {"pushed", "pulled"} :
            Live(k) =>
              LET old == World[k].inner
                  new == World'[k].inner
              IN  /\ new \notin DOMAIN subs
                  /\ subs'[new].session = Len(peerConnection')
                  /\ subs'[new].open
                  /\ old # 0 => ~subs'[old].open
                  /\ \E c \in DOMAIN calls' \ DOMAIN calls :
                       calls'[c].sub = new
       ]_vars

\* The push job of the first session was rejected on its closed peer
\* connection and the push, started again under the second session, has
\* its request answered there.
C11_Witness ==
  /\ Len(peerConnection) = 2
  /\ pushed.inner # 0
  /\ subs[pushed.inner].session = 2
  /\ subs[pushed.inner].state = "live"
  /\ \E j \in DOMAIN jobs :
       /\ jobs[j].kind = "push"
       /\ StartedUnder(j) = {1}
       /\ jobs[j].pc = "rejected"
       /\ \E i \in DOMAIN jobs :
            /\ jobs[i].kind = "push" /\ StartedUnder(i) = {2}
            /\ jobs[i].pc = "resolved"
            /\ \E r \in RequestsOf(requests, i) : requests[r].session = 2

UpdateRequests ==
  {r \in DOMAIN requests : requests[r].endpoint = "tracks/update"}

NewUpdateRequests ==
  {r \in DOMAIN requests' \ DOMAIN requests :
     requests'[r].endpoint = "tracks/update"}

\* C18 as stated: while the pull is active there are as many PUT
\* tracks/update requests as values preferredRid$ has emitted after its
\* first, and a request appears only in a step in which preferredRid$ emits.
C18_OneUpdatePerRidValue ==
  /\ [](pulled.state = "subscribed" =>
          Cardinality(UpdateRequests) = pulled.ridValues)
  /\ [][NewUpdateRequests # {} => pulled'.ridValues = pulled.ridValues + 1]_vars

\* The combineLatest of pull() emits: preferredRid$ emits after its first
\* value, a track is delivered, or session$ emits.
PullCombineLatestEmits ==
  \/ pulled'.ridValues # pulled.ridValues
  \/ pulled'.track # pulled.track
  \/ Len(peerConnection') > Len(peerConnection)

\* C18, amended: a PUT tracks/update is sent exactly when the combineLatest
\* of pull() emits while the last value of preferredRid$ after its first is
\* defined and the track delivered belongs to a transceiver of the latest
\* session; it carries that session, that transceiver's mid and that rid.
\* The first value of preferredRid$, an undefined value and the emission of
\* a session send nothing.
C18_UpdateOnEmissionWithRid ==
  /\ [](/\ pulled.ridValues = 0 =>
             pulled.subsequentPreferredRid = 0 /\ UpdateRequests = {}
        /\ \A r \in UpdateRequests :
             /\ requests[r].rid # 0
             /\ requests[r].tracks[1] # 0
             /\ TransceiverWithMid(transceivers, requests[r].session,
                                   requests[r].tracks[1]) # 0)
  /\ [][/\ Cardinality(NewUpdateRequests) <= 1
        /\ NewUpdateRequests # {} <=>
             /\ PullCombineLatestEmits
             /\ pulled'.track # 0
             /\ pulled'.subsequentPreferredRid # 0
             /\ transceivers'[pulled'.track].session = Len(peerConnection')
        /\ \A r \in NewUpdateRequests :
             /\ requests'[r].session = Len(peerConnection')
             /\ requests'[r].tracks = <<transceivers'[pulled'.track].mid>>
             /\ requests'[r].rid = pulled'.subsequentPreferredRid
        /\ Len(peerConnection') > Len(peerConnection) =>
             NewUpdateRequests = {}
        /\ pulled'.subsequentPreferredRid = 0 => NewUpdateRequests = {}
       ]_vars

\* preferredRid$ has emitted one value after its first, and two updates
\* were sent: one in the first session when the value came, one in the
\* second session when the track pulled again was delivered.
C18_Witness ==
  /\ pulled.state = "subscribed"
  /\ pulled.ridValues = 1
  /\ Cardinality(UpdateRequests) = 2
  /\ {requests[r].session : r \in UpdateRequests} = {1, 2}
  /\ \A r \in UpdateRequests :
       requests[r].rid = pulled.subsequentPreferredRid

\* The steps of a pull job after the SFU has assigned the mids.
AfterMidsAssigned ==
  {"setRemoteDescription", "createAnswer", "setLocalDescription",
   "renegotiate"}

\* C21: when the job of an open pull subscription settles after the SFU has
\* assigned a mid to its track and no transceiver of that mid has surfaced,
\* the subscription is left waiting for the transceiver under the timeout
\* whose expiry errors it; it is not left without any handler to end it.
C21_UnresolvedPullErrors ==
  [][\A s \in DOMAIN subs :
       LET j == JobOfSub(s) IN
       /\ subs[s].kind = "pull" /\ subs[s].open
       /\ j # 0
       /\ jobs[j].pc \in AfterMidsAssigned
       /\ PulledTrackData(jobs[j].response, subs[s].track) # 0
       /\ Settled(jobs'[j])
       /\ TransceiverWithMid(transceivers', subs[s].session,
                             PulledTrackData(jobs[j].response,
                                             subs[s].track)) = 0
       => subs'[s].state \in {"resolving", "errored"}]_vars

\* C22: when a fetch of a job returns status 0, the session of the job is
\* taken as expired: its peer connection is closed for the coordinator to
\* build a new session.
C22_Status0RebuildsSession ==
  [][\A j \in DOMAIN jobs :
       ~jobs[j].status0 /\ jobs'[j].status0
       => peerConnection'[SessionOfJob(World, j)].connectionState = "closed"
     ]_vars

(***************************************************************************)
(* SpecSocket: one ReconnectingSocket.  rws holds its options, its fields  *)
(* (retry count, connect lock, the "should reconnect" and "close called"   *)
(* flags), its pre-open send queue and the state of its underlying socket; *)
(* sent is what reached an underlying socket, in order.  A message is the  *)
(* number of the send() call that carried it and is that many bytes long.  *)
(***************************************************************************)
NewSocket(maxRetries, maxEnqueuedMessages) ==
  [maxRetries |-> maxRetries,
   maxEnqueuedMessages |-> maxEnqueuedMessages,
   retryCount |-> -1,
   connectLock |-> FALSE,
   shouldReconnect |-> TRUE,
   closeCalled |-> FALSE,
   pending |-> FALSE,        \* a connect attempt is in its backoff wait
   ws |-> "none",            \* ready state of the underlying socket
   messageQueue |-> <<>>,
   sent |-> <<>>,
   attempts |-> 0,           \* underlying sockets constructed
   gaveUp |-> FALSE,         \* the last connect stopped at maxRetries
   exhausted |-> 0,          \* times connect stopped at maxRetries
   flushed |-> 0,            \* messages the last open took from the queue
   lastSend |-> "none",      \* what the last send() did with its message
   sends |-> 0, reconnects |-> 0, closes |-> 0, opens |-> 0,
   event |-> "constructor"]

RECURSIVE Bytes(_)
Bytes(q) == IF q = <<>> THEN 0 ELSE Head(q) + Bytes(Tail(q))

\* bufferedAmount: the bytes of the queue (the underlying socket buffers
\* nothing in this model).
bufferedAmount(r) == Bytes(r.messageQueue)

releaseConnectLock(r) == [r EXCEPT !.connectLock = FALSE]

maxRetriesReachedLockHeld(r) ==
  [r EXCEPT !.gaveUp = TRUE, !.exhausted = @ + 1]

\* connect's early return once maxRetries attempts were made.
maxRetriesReached(r) ==
  [releaseConnectLock(r) EXCEPT !.gaveUp = TRUE, !.exhausted = @ + 1]

\* connect: nothing while another connect holds the lock or the socket
\* should not reconnect; stop after maxRetries; else start an attempt,
\* which first waits for its backoff delay.
connect(r) ==
  IF r.connectLock \/ ~r.shouldReconnect
  THEN r
  ELSE LET locked == [r EXCEPT !.connectLock = TRUE] IN
       IF locked.retryCount >= locked.maxRetries
       THEN maxRetriesReached(locked)
       ELSE [locked EXCEPT !.retryCount = @ + 1, !.pending = TRUE,
                           !.gaveUp = FALSE]

flushNewestFirst(r) ==
  [r EXCEPT !.sent = @ \o [i \in 1..Len(r.messageQueue) |->
                             r.messageQueue[Len(r.messageQueue) + 1 - i]],
            !.messageQueue = <<>>,
            !.flushed = Len(r.messageQueue)]

\* On open, the queue is sent on the underlying socket in order and emptied.
flush(r) ==
  [r EXCEPT !.sent = @ \o r.messageQueue, !.messageQueue = <<>>,
            !.flushed = Len(r.messageQueue)]

enqueueUnbounded(r, m) ==
  [r EXCEPT !.messageQueue = Append(@, m), !.lastSend = "queued"]

\* The pre-open queue holds up to maxEnqueuedMessages; overflow is dropped.
enqueue(r, m) ==
  IF Len(r.messageQueue) < r.maxEnqueuedMessages
  THEN [r EXCEPT !.messageQueue = Append(@, m), !.lastSend = "queued"]
  ELSE [r EXCEPT !.lastSend = "dropped"]

send(r, m) ==
  IF r.ws = "OPEN"
  THEN [r EXCEPT !.sent = Append(@, m), !.lastSend = "sent"]
  ELSE enqueue(r, m)

InitSocket ==
  /\ SessionIdle
  /\ SignalIdle
  /\ capacity = [k \in DispatcherKinds |-> DispatcherCapacity]
  /\ hook = <<>>
  /\ sockets = <<>>
  /\ server = <<>>
  /\ \E maxRetries \in 0..MaxRetriesOption,
        maxEnqueuedMessages \in 0..MaxEnqueuedOption,
        startClosed \in BOOLEAN :
       rws = IF startClosed
             THEN NewSocket(maxRetries, maxEnqueuedMessages)
             ELSE connect(NewSocket(maxRetries, maxEnqueuedMessages))

SocketStep(r) ==
  /\ rws' = r
  /\ UNCHANGED <<sessVars, sigVars, hook, sockets, server>>

\* The backoff wait of a connect attempt is over: the attempt is given up
\* if close() was called meanwhile, else the underlying socket is made.
\* Either way the connect lock is released.
AttemptStarts ==
  /\ rws.pending
  /\ SocketStep(
       IF rws.closeCalled
       THEN [releaseConnectLock(rws) EXCEPT !.pending = FALSE,
                                            !.event = "abandoned"]
       ELSE [releaseConnectLock(rws) EXCEPT !.pending = FALSE,
                                            !.ws = "CONNECTING",
                                            !.attempts = @ + 1,
                                            !.event = "attempt"])

HandleOpen ==
  /\ rws.ws = "CONNECTING"
  /\ rws.opens < MaxOpens
  /\ SocketStep([flush([rws EXCEPT !.ws = "OPEN"])
                   EXCEPT !.opens = @ + 1, !.event = "open"])

\* The connection stayed up for the uptime threshold: the retry count is
\* reset.
AcceptOpen ==
  /\ rws.ws = "OPEN"
  /\ rws.retryCount # 0
  /\ SocketStep([rws EXCEPT !.retryCount = 0, !.event = "acceptOpen"])

\* An error of the underlying socket, or the connection timeout: the
\* underlying socket is closed and connect is entered.
HandleError ==
  /\ rws.ws \in {"CONNECTING", "OPEN"}
  /\ SocketStep(connect([rws EXCEPT !.ws = "CLOSED", !.event = "error"]))

\* The underlying socket closed: connect is entered if the socket should
\* reconnect.
HandleClose ==
  /\ rws.ws \in {"OPEN", "CLOSING"}
  /\ SocketStep(connect([rws EXCEPT !.ws = "CLOSED", !.event = "close"]))

Send ==
  /\ rws.sends < MaxMessages
  /\ SocketStep([send(rws, rws.sends + 1)
                   EXCEPT !.sends = @ + 1, !.event = "send"])

Close ==
  /\ rws.closes < MaxCloses
  /\ SocketStep([rws EXCEPT !.closeCalled = TRUE,
                            !.shouldReconnect = FALSE,
                            !.ws = IF @ \in {"none", "CLOSED"}
                                   THEN @ ELSE "CLOSING",
                            !.closes = @ + 1,
                            !.event = "close()"])

\* reconnect(): clears the "should not reconnect" flag, resets the retry
\* count, drops the underlying socket if there is one and enters connect.
Reconnect ==
  /\ rws.reconnects < MaxReconnects
  /\ SocketStep(connect([rws EXCEPT !.shouldReconnect = TRUE,
                                    !.closeCalled = FALSE,
                                    !.retryCount = -1,
                                    !.ws = IF @ = "none" THEN @ ELSE "CLOSED",
                                    !.reconnects = @ + 1,
                                    !.event = "reconnect()"]))

NextSocket ==
  \/ AttemptStarts
  \/ HandleOpen
  \/ AcceptOpen
  \/ HandleError
  \/ HandleClose
  \/ Send
  \/ Close
  \/ Reconnect

SpecSocket == InitSocket /\ [][NextSocket]_vars

\* C23: once connect has stopped at maxRetries, the connect lock is free,
\* and every reconnect() from there starts a new connect attempt with the
\* retry count reset.
C23_ReconnectAfterMaxRetries ==
  /\ [](rws # <<>> /\ rws.gaveUp => ~rws.connectLock)
  /\ [][rws.gaveUp /\ rws'.reconnects = rws.reconnects + 1
        => /\ rws'.pending
           /\ rws'.connectLock
           /\ rws'.retryCount = 0
           /\ ~rws'.gaveUp]_vars

\* reconnect() was called after connect had stopped at maxRetries, and the
\* attempt it started has made one more underlying socket.
C23_Witness ==
  /\ rws.exhausted >= 1
  /\ rws.reconnects >= 1
  /\ rws.event = "attempt"
  /\ rws.attempts > rws.maxRetries + 1
  /\ rws.opens = 0

\* C24: the queue never holds more than maxEnqueuedMessages; a send() on a
\* socket that is not open with the queue full is dropped: the queue,
\* bufferedAmount and what was sent stay as they were.
C24_QueueBounded ==
  /\ [](rws # <<>> => Len(rws.messageQueue) <= rws.maxEnqueuedMessages)
  /\ [][/\ rws'.sends = rws.sends + 1
        /\ rws.ws # "OPEN"
        /\ Len(rws.messageQueue) >= rws.maxEnqueuedMessages
        => /\ rws'.lastSend = "dropped"
           /\ rws'.messageQueue = rws.messageQueue
           /\ bufferedAmount(rws') = bufferedAmount(rws)
           /\ rws'.sent = rws.sent]_vars

\* A send() was dropped from a full queue of two messages.
C24_Witness ==
  /\ rws.event = "send"
  /\ rws.lastSend = "dropped"
  /\ rws.maxEnqueuedMessages = 2
  /\ Len(rws.messageQueue) = 2
  /\ rws.ws # "OPEN"

\* C25: when the underlying socket opens, the queued messages are sent on
\* it in the order they were queued and the queue is left empty; an open
\* socket has nothing queued.
C25_FlushOnOpen ==
  /\ [](rws # <<>> /\ rws.ws = "OPEN" => rws.messageQueue = <<>>)
  /\ [][rws.ws # "OPEN" /\ rws'.ws = "OPEN"
        => /\ rws'.sent = rws.sent \o rws.messageQueue
           /\ rws'.messageQueue = <<>>]_vars

\* The socket opened with two messages queued and both were sent.
C25_Witness ==
  /\ rws.event = "open"
  /\ rws.flushed = 2
  /\ rws.sent = <<1, 2>>
  /\ rws.messageQueue = <<>>

(***************************************************************************)
(* SpecBinding: one component that calls useStableSocket.  hook holds the  *)
(* state (socket), the memo (socketOptions), the refs, the dependencies    *)
(* and the cleanup of the last effect run; sockets are the sockets that    *)
(* createSocket returned, each with the options it was made from and       *)
(* whether its last call was reconnect().  A step is one render of the     *)
(* component with the effect run that follows it, or the unmount.  The     *)
(* operators work on b = [h |-> hook, s |-> sockets].                      *)
(***************************************************************************)
\* The connection options: the memo key covers all of them, startClosed
\* included (getOptionsThatShouldCauseRestartWhenChanged).
OptionValues == [id : 1..MaxOptionValues, startClosed : BOOLEAN]

Props == [key : OptionValues, enabled : BOOLEAN]

Called(b, op, i) == [b EXCEPT !.h.log = Append(@, <<op, i>>)]

socketClose(b, i) ==
  Called([b EXCEPT !.s[i].connected = FALSE, !.s[i].closeCalled = TRUE],
         "close", i)

socketReconnect(b, i) == Called([b EXCEPT !.s[i].connected = TRUE], "reconnect", i)

\* createSocket({...socketOptions, startClosed: true}); the new socket is
\* the last of b.s.
createSocket(b) ==
  [b EXCEPT !.s = Append(@, [options |-> b.h.socketOptions.key,
                             startClosed |-> TRUE,
                             connected |-> FALSE,
                             closeCalled |-> FALSE])]

setSocket(b, i) == [b EXCEPT !.h.pending = i]

Returns(b, i, branch) == [b EXCEPT !.h.cleanup = i, !.h.branch = branch]

\* if (!enabled) { ... }
disabled(b, optionsChanged) ==
  LET c == socketClose(b, b.h.socket) IN
  Returns([c EXCEPT !.h.prevEnabledRef = FALSE,
                    !.h.optionsChangedWhileDisabledRef =
                       IF optionsChanged THEN TRUE ELSE @],
          b.h.socket, "disabled")

needsNewSocketIgnoringDrift(h, optionsChanged) == optionsChanged

needsNewSocketAlways(h, optionsChanged) == TRUE

needsNewSocket(h, optionsChanged) ==
  optionsChanged \/ h.optionsChangedWhileDisabledRef

reenableReconnectsStale(b, optionsChanged) ==
  LET c == socketReconnect([b EXCEPT !.h.prevEnabledRef = TRUE,
                               !.h.optionsChangedWhileDisabledRef = FALSE],
                     b.h.socket) IN
  IF ~needsNewSocket(b.h, optionsChanged)
  THEN Returns(c, b.h.socket, "reenable")
  ELSE LET n == createSocket(c) IN
       Returns(setSocket(n, Len(n.s)), Len(n.s), "reenableNew")

reenableNoCleanup(b, optionsChanged) ==
  LET c == [b EXCEPT !.h.prevEnabledRef = TRUE,
                     !.h.optionsChangedWhileDisabledRef = FALSE] IN
  IF ~needsNewSocket(b.h, optionsChanged)
  THEN Returns(socketReconnect(c, b.h.socket), 0, "reenable")
  ELSE LET n == createSocket(c) IN
       Returns(setSocket(n, Len(n.s)), 0, "reenableNew")

\* if (!prevEnabledRef.current && enabled) { ... }
reenable(b, optionsChanged) ==
  LET c == [b EXCEPT !.h.prevEnabledRef = TRUE,
                     !.h.optionsChangedWhileDisabledRef = FALSE] IN
  IF ~needsNewSocket(b.h, optionsChanged)
  THEN Returns(socketReconnect(c, b.h.socket), b.h.socket, "reenable")
  ELSE LET n == createSocket(c) IN
       Returns(setSocket(n, Len(n.s)), Len(n.s), "reenableNew")

replayCreatesSocket(b) ==
  LET n == createSocket(b) IN
  Returns(setSocket(n, Len(n.s)), Len(n.s), "replay")

replayReconnectsAlways(b) ==
  Returns(socketReconnect(b, b.h.socket), b.h.socket, "replay")

\* socketInitializedRef.current === socket and the options did not change:
\* a hot reload or strict mode re-run of the effect.
replay(b) ==
  Returns(IF ~b.h.socketOptions.key.startClosed
          THEN socketReconnect(b, b.h.socket) ELSE b,
          b.h.socket, "replay")

\* socketInitializedRef.current === socket and the options changed.
optionsChange(b) ==
  LET n == createSocket(b) IN
  Returns(setSocket(n, Len(n.s)), Len(n.s), "optionsChanged")

initializeAsFirstMount(b) ==
  Returns([(IF b.h.socketInitializedRef = 0
               /\ ~b.h.socketOptions.key.startClosed
            THEN socketReconnect(b, b.h.socket) ELSE b)
             EXCEPT !.h.socketInitializedRef = b.h.socket],
          b.h.socket,
          IF b.h.socketInitializedRef = 0 THEN "firstMount"
          ELSE "replacement")

\* socketInitializedRef.current !== socket: the first mount or the first
\* effect run of a replacement socket.
initialize(b) ==
  LET c == IF b.h.socketInitializedRef = 0
           THEN IF ~b.h.socketOptions.key.startClosed
                THEN socketReconnect(b, b.h.socket) ELSE b
           ELSE socketReconnect(b, b.h.socket) IN
  Returns([c EXCEPT !.h.socketInitializedRef = b.h.socket], b.h.socket,
          IF b.h.socketInitializedRef = 0 THEN "firstMount"
          ELSE "replacement")

\* The body of the effect, run with the socket, socketOptions and enabled
\* of the render b.h was left by.
effect(b) ==
  LET optionsChanged == b.h.prevSocketOptionsRef # b.h.socketOptions.ref
      c == [b EXCEPT !.h.prevSocketOptionsRef = b.h.socketOptions.ref]
  IN  IF ~c.h.enabled THEN disabled(c, optionsChanged)
      ELSE IF ~c.h.prevEnabledRef THEN reenable(c, optionsChanged)
      ELSE IF c.h.socketInitializedRef = c.h.socket
           THEN IF optionsChanged THEN optionsChange(c) ELSE replay(c)
           ELSE initialize(c)

cleanupSkipped(b) == b

\* The cleanup the last effect run returned.
cleanup(b) == IF b.h.cleanup = 0 THEN b ELSE socketClose(b, b.h.cleanup)

Deps(h) == <<h.socket, h.socketOptions.ref, h.enabled>>

\* The first render: useMemo, useState with its initializer and the refs
\* take their first values.
firstRender(props) ==
  LET h == [mounted |-> TRUE,
            key |-> props.key,
            enabled |-> props.enabled,
            socketOptions |-> [ref |-> 1, key |-> props.key],
            socket |-> 1,
            pending |-> 0,
            socketInitializedRef |-> 0,
            prevEnabledRef |-> props.enabled,
            prevSocketOptionsRef |-> 1,
            optionsChangedWhileDisabledRef |-> FALSE,
            deps |-> <<>>,
            cleanup |-> 0,
            branch |-> "none",
            log |-> <<>>,
            \* history, read by the properties only
            keyChanges |-> 0,
            keyChanged |-> FALSE,
            ran |-> FALSE,
            toggles |-> 0,
            replayed |-> FALSE,
            changedWhileDisabled |-> FALSE,
            socketsAtDisable |-> IF props.enabled THEN 0 ELSE 1]
  IN  createSocket([h |-> h, s |-> <<>>])

\* A later render with the given props: the memo is recomputed when the
\* key differs from the last render's, a socket passed to setSocket becomes
\* the state.
render(b, props) ==
  LET h == b.h
      keyChanged == props.key # h.key
  IN  [b EXCEPT
         !.h.key = props.key,
         !.h.enabled = props.enabled,
         !.h.socketOptions = IF keyChanged
                             THEN [ref |-> @.ref + 1, key |-> props.key]
                             ELSE @,
         !.h.socket = IF h.pending # 0 THEN h.pending ELSE @,
         !.h.pending = 0,
         !.h.log = <<>>,
         !.h.keyChanges = IF keyChanged THEN @ + 1 ELSE @,
         !.h.keyChanged = keyChanged,
         !.h.ran = FALSE,
         !.h.toggles = IF props.enabled # h.enabled /\ @ < 2
                       THEN @ + 1 ELSE @,
         !.h.changedWhileDisabled =
            IF props.enabled /\ h.enabled THEN FALSE
            ELSE IF h.enabled THEN keyChanged
            ELSE @ \/ keyChanged,
         !.h.socketsAtDisable = IF h.enabled /\ ~props.enabled
                                THEN Len(b.s) ELSE @]

\* After a render the effect runs when a dependency changed, or when it is
\* replayed (hot reload, strict mode): first the last cleanup, then the
\* body.
runEffect(b, replayed) ==
  IF replayed \/ Deps(b.h) # b.h.deps
  THEN LET c == effect(cleanup(b)) IN
       [c EXCEPT !.h.deps = Deps(b.h),
                 !.h.ran = TRUE,
                 !.h.replayed = @ \/ replayed]
  ELSE b

BindingStep(b) ==
  /\ hook' = b.h
  /\ sockets' = b.s
  /\ UNCHANGED <<sessVars, sigVars, rws, server>>

InitBinding ==
  /\ SessionIdle
  /\ SignalIdle
  /\ capacity = [k \in DispatcherKinds |-> DispatcherCapacity]
  /\ rws = <<>>
  /\ server = <<>>
  /\ \E props \in Props :
       LET b == runEffect(firstRender(props), FALSE) IN
       /\ hook = b.h
       /\ sockets = b.s

Binding == [h |-> hook, s |-> sockets]

\* The component renders again, with the same or with new props.
Render(props) ==
  /\ hook.mounted
  /\ props.key # hook.key => hook.keyChanges < MaxKeyChanges
  /\ BindingStep(runEffect(render(Binding, props), FALSE))

\* A hot reload, or the strict mode replay: the component renders with the
\* props it has and its effect runs again.
EffectReplay ==
  /\ hook.mounted
  /\ BindingStep(runEffect(render(Binding,
                               [key |-> hook.key, enabled |-> hook.enabled]),
                        TRUE))

Unmount ==
  /\ hook.mounted
  /\ BindingStep([cleanup([Binding EXCEPT !.h.log = <<>>])
                    EXCEPT !.h.mounted = FALSE, !.h.branch = "unmount"])

NextBinding ==
  \/ \E props \in Props : Render(props)
  \/ EffectReplay
  \/ Unmount

SpecBinding == InitBinding /\ [][NextBinding]_vars

\* C26: over re-renders that leave the options memo key as it was, enabled
\* toggles and effect replays among them, the hook returns the same socket
\* on every render.
C26_SameKeySameSocket ==
  [][/\ hook.mounted /\ hook'.mounted
     /\ ~hook.keyChanged
     /\ hook'.key = hook.key
     => hook'.socket = hook.socket]_vars

\* C26, amended: the hook returns the first socket for as long as the key
\* is the one of the mount; and from any render that left no replacement
\* pending and no option change made while disabled, a render with the
\* same key returns the same socket and creates none.
C26_SameKeySameSocketOnceAdopted ==
  /\ [](hook # <<>> /\ hook.keyChanges = 0
        => hook.socket = 1 /\ Len(sockets) = 1)
  /\ [][/\ hook.mounted /\ hook'.mounted
        /\ hook'.key = hook.key
        /\ hook.pending = 0
        /\ ~hook.changedWhileDisabled
        => /\ hook'.socket = hook.socket
           /\ sockets' # <<>> /\ Len(sockets') = Len(sockets)]_vars

\* The key never changed, enabled went to false and back, the effect was
\* replayed, and the first socket is still the one returned and is
\* connected.
C26_Witness ==
  /\ hook.mounted
  /\ hook.keyChanges = 0
  /\ hook.toggles = 2
  /\ hook.replayed
  /\ hook.enabled
  /\ hook.socket = 1
  /\ sockets[1].connected

\* C27: when enabled returns to true after the options changed while the
\* socket was disabled or on the re-enabling render itself, that render
\* creates the one new socket of the whole disabled period, from the
\* options of that render; and the socket passed to setSocket is the one
\* the next render returns.
C27_OneSocketFromFinalOptions ==
  /\ [][/\ hook.mounted /\ hook'.mounted
        /\ ~hook.enabled /\ hook'.enabled
        /\ hook'.changedWhileDisabled
        => /\ Len(sockets') = hook.socketsAtDisable + 1
           /\ sockets'[Len(sockets')].options = hook'.key
           /\ hook'.pending = Len(sockets')]_vars
  /\ [][hook.mounted /\ hook'.mounted /\ hook.pending # 0
        => hook'.socket = hook.pending /\ hook'.pending = 0]_vars

\* Mounted enabled, disabled, the options changed twice, enabled again:
\* the second socket was made from the last options, and then returned.
C27_Witness ==
  /\ hook.mounted
  /\ hook.toggles = 2
  /\ hook.keyChanges = 2
  /\ hook.enabled
  /\ hook.socketsAtDisable = 1
  /\ Len(sockets) = 2
  /\ hook.socket = 2
  /\ sockets[2].options = hook.key
  /\ sockets[1].options # hook.key

\* C28: when enabled returns to true and the options changed neither on
\* that render nor while the socket was disabled, the effect calls
\* reconnect() on the socket it had, no socket is created and the same
\* socket is returned, on that render and on the next.
C28_ReenableReconnectsSameSocket ==
  /\ [][/\ hook.mounted /\ hook'.mounted
        /\ ~hook.enabled /\ hook'.enabled
        /\ ~hook'.changedWhileDisabled
        => /\ hook'.socket = hook.socket
           /\ hook'.pending = 0
           /\ sockets' # <<>> /\ Len(sockets') = Len(sockets)
           /\ \E i \in DOMAIN hook'.log :
                hook'.log[i] = <<"reconnect", hook.socket>>
           /\ sockets'[hook.socket].connected]_vars
  /\ [][/\ hook.mounted /\ hook'.mounted
        /\ hook.branch = "reenable"
        /\ hook'.key = hook.key
        => hook'.socket = hook.socket]_vars

\* Enabled went to false and back with the options of the mount: the
\* first socket was reconnected and is the only socket.
C28_Witness ==
  /\ hook.mounted
  /\ hook.branch = "reenable"
  /\ hook.keyChanges = 0
  /\ hook.log = <<<<"close", 1>>, <<"reconnect", 1>>>>
  /\ Len(sockets) = 1
  /\ sockets[1].connected

\* C29: when enabled returns to true with options that changed on that
\* render or while the socket was disabled, the effect does not call
\* reconnect() on the socket it had, which stays closed, and creates the
\* replacement; at any time only the socket the hook returns can be
\* connected, and reconnect() is only ever called on it.
C29_StaleSocketNeverReconnected ==
  /\ [][/\ hook.mounted /\ hook'.mounted
        /\ ~hook.enabled /\ hook'.enabled
        /\ hook'.changedWhileDisabled
        => /\ \A i \in DOMAIN hook'.log :
                hook'.log[i] # <<"reconnect", hook.socket>>
           /\ ~sockets'[hook.socket].connected
           /\ hook'.pending = Len(sockets) + 1]_vars
  /\ [](\A i \in DOMAIN sockets : sockets[i].connected => i = hook.socket)
  /\ [][\A i \in DOMAIN hook'.log :
          hook'.log[i][1] = "reconnect" => hook'.log[i][2] = hook'.socket
       ]_vars

\* The options changed while disabled; after the re-enabling render and
\* the next one the replacement is connected and the first socket is not.
C29_Witness ==
  /\ hook.mounted
  /\ hook.branch = "replacement"
  /\ hook.toggles = 2
  /\ hook.keyChanges = 1
  /\ hook.log = <<<<"close", 2>>, <<"reconnect", 2>>>>
  /\ hook.socket = 2
  /\ sockets[2].connected
  /\ ~sockets[1].connected

\* The socket the hook holds: the one passed to setSocket if the render
\* that adopts it has not happened yet, else the one returned.
Held == IF hook.pending # 0 THEN hook.pending ELSE hook.socket

\* C30: whichever branch the last effect run took, the unmount calls
\* close() on the socket the hook holds, and after the unmount no socket
\* the hook created is connected.
C30_UnmountClosesSocket ==
  /\ [][hook.mounted /\ ~hook'.mounted
        => hook'.log = <<<<"close", Held>>>>]_vars
  /\ [](hook # <<>> /\ ~hook.mounted
        => \A i \in DOMAIN sockets : ~sockets[i].connected)

\* Unmounted right after an effect run that had reconnected the socket.
C30_Witness ==
  /\ ~hook.mounted
  /\ hook.branch = "unmount"
  /\ hook.toggles = 2
  /\ hook.enabled
  /\ hook.cleanup = hook.socket
  /\ hook.log = <<<<"close", hook.socket>>>>
  /\ hook.prevEnabledRef
  /\ ~hook.socketOptions.key.startClosed

\* C31: when the effect runs again on an enabled component with the socket
\* it had initialized and the options reference it had seen, no socket is
\* created, reconnect() is called on the socket exactly if startClosed was
\* not requested, and with startClosed requested the socket is closed
\* after the run.
C31_ReplayKeepsSocket ==
  [][/\ hook.mounted /\ hook'.mounted
     /\ hook'.ran
     /\ hook.prevEnabledRef /\ hook'.enabled
     /\ hook.socketInitializedRef = hook'.socket
     /\ hook.prevSocketOptionsRef = hook'.socketOptions.ref
     => /\ sockets' # <<>> /\ Len(sockets') = Len(sockets)
        /\ hook'.pending = 0
        /\ hook'.socket = hook.socket
        /\ (\E i \in DOMAIN hook'.log :
              hook'.log[i] = <<"reconnect", hook.socket>>)
             <=> ~hook'.socketOptions.key.startClosed
        /\ hook'.socketOptions.key.startClosed
             => ~sockets'[hook.socket].connected]_vars

\* A replay on a component mounted with startClosed: the cleanup closed the
\* socket, nothing reconnected it.
C31_Witness ==
  /\ hook.mounted
  /\ hook.ran
  /\ hook.branch = "replay"
  /\ hook.socketOptions.key.startClosed
  /\ hook.log = <<<<"close", 1>>>>
  /\ Len(sockets) = 1
  /\ ~sockets[1].connected

\* C39: after every render with its effect run, and after the unmount,
\* every socket the hook created other than the one it returns is closed
\* (its last call, if any, was close()), so at most one socket is
\* connected.
C39_OnlyReturnedSocketConnected ==
  /\ hook # <<>>
     => /\ \A i \in DOMAIN sockets :
             i # hook.socket => ~sockets[i].connected
        /\ hook.pending = 0 \/ ~hook.mounted
             => \A i \in DOMAIN sockets :
                  i # hook.socket => sockets[i].closeCalled
        /\ Cardinality({i \in DOMAIN sockets : sockets[i].connected}) <= 1

\* Three sockets were created; the one returned is connected, the two
\* replaced ones are closed.
C39_Witness ==
  /\ hook.mounted
  /\ Len(sockets) = 3
  /\ hook.socket = 3
  /\ sockets[3].connected
  /\ hook.pending = 0
  /\ ~sockets[1].connected /\ sockets[1].closeCalled
  /\ ~sockets[2].connected /\ sockets[2].closeCalled

\* C40: after every render with its effect run, if enabled is true,
\* startClosed is not requested and no replacement socket waits for the
\* next render, the socket returned is connected: reconnect() was called
\* on it after its last close().
C40_EnabledSocketConnected ==
  /\ hook # <<>>
     => (/\ hook.mounted
         /\ hook.enabled
         /\ ~hook.key.startClosed
         /\ hook.pending = 0
         => sockets[hook.socket].connected)

\* After an enabled toggle, an options change and a replay the socket
\* returned, the second one, is connected.
C40_Witness ==
  /\ hook.mounted
  /\ hook.enabled
  /\ ~hook.key.startClosed
  /\ hook.pending = 0
  /\ hook.toggles = 2
  /\ hook.keyChanges = 1
  /\ hook.replayed
  /\ hook.socket = 2
  /\ hook.log = <<<<"close", 2>>, <<"reconnect", 2>>>>
  /\ sockets[2].connected

(***************************************************************************)
(* SpecServer: one instance of a partyserver Server (a Durable Object)     *)
(* and the events it receives: HTTP requests, WebSocket upgrades and, for  *)
(* hibernated connections, WebSocket messages.  An event waits until the   *)
(* input gate lets it in; the gate is shut while a storage operation of a  *)
(* handler is in progress and for the whole of a blockConcurrencyWhile     *)
(* callback.  server.gate is the event that shuts the gate, 0 if none.     *)
(***************************************************************************)
EventKinds == {"request", "connect", "message"}

NewServer(hibernated) ==
  [status |-> "zero",
   name |-> 0,               \* #_name: 0 until set, then the room
   gate |-> 0,
   events |-> <<>>,
   connections |-> hibernated,
   onStartCalls |-> 0,
   onStartResolved |-> 0,
   onStartThrown |-> 0]

NewEvent(kind) ==
  [kind |-> kind,
   pc |-> "queued",          \* queued | put | onStart | handler | done
   response |-> "none",      \* "ok" | "error" once done
   invokedWhile |-> "none"]  \* #status when its on... handler was called

InputGateAlwaysOpen(sv) == TRUE

\* The input gate lets an event in.
InputGateOpen(sv) == sv.gate = 0

\* onRequest, onConnect (after the connection is accepted) or onMessage is
\* called for event h.
invoke(sv, h) ==
  [sv EXCEPT !.events[h].pc = "handler",
             !.events[h].invokedWhile = sv.status,
             !.connections = IF sv.events[h].kind = "connect"
                             THEN @ + 1 ELSE @]

\* #initialize up to the call of onStart, inside blockConcurrencyWhile.
serverInitialize(sv, h) ==
  [sv EXCEPT !.gate = h,
             !.status = "starting",
             !.onStartCalls = @ + 1,
             !.events[h].pc = "onStart"]

\* setName up to its await of storage.put.
setName(sv, h) ==
  [sv EXCEPT !.name = 1, !.gate = h, !.events[h].pc = "put"]

\* setName after storage.put, and the handler call that follows it.
afterSetName(sv, h) ==
  LET open == [sv EXCEPT !.gate = 0] IN
  IF open.status # "started"
  THEN serverInitialize(open, h)
  ELSE invoke(open, h)

\* fetch up to its first await, or up to the handler call if there is none.
fetch(sv, h) ==
  IF sv.name = 0 THEN setName(sv, h)
  ELSE IF sv.status # "started" THEN serverInitialize(sv, h)
  ELSE invoke(sv, h)

\* webSocketMessage up to its first await.
webSocketMessage(sv, h) == setName(sv, h)

initializeFailedStuck(sv, h) ==
  [sv EXCEPT !.gate = 0,
             !.onStartThrown = @ + 1,
             !.events[h].pc = "done",
             !.events[h].response =
                IF sv.events[h].kind = "message" THEN "none" ELSE "error"]

\* onStart threw: #initialize resets the status and rethrows outside of
\* blockConcurrencyWhile; fetch answers with an error response (status 500,
\* or an error frame on a WebSocket), webSocketMessage logs and returns.
initializeFailed(sv, h) ==
  [sv EXCEPT !.status = "zero",
             !.gate = 0,
             !.onStartThrown = @ + 1,
             !.events[h].pc = "done",
             !.events[h].response =
                IF sv.events[h].kind = "message" THEN "none" ELSE "error"]

\* onStart resolved: the status is "started" and the handler is called.
initialized(sv, h) ==
  invoke([sv EXCEPT !.status = "started", !.gate = 0,
                    !.onStartResolved = @ + 1], h)

InitServer ==
  /\ SessionIdle
  /\ SignalIdle
  /\ capacity = [k \in DispatcherKinds |-> DispatcherCapacity]
  /\ rws = <<>>
  /\ hook = <<>>
  /\ sockets = <<>>
  /\ \E hibernated \in 0..MaxHibernated : server = NewServer(hibernated)

ServerStep(sv) ==
  /\ server' = sv
  /\ UNCHANGED <<sessVars, sigVars, rws, hook, sockets>>

\* An event for the instance arrives; a WebSocket message needs a
\* connection the Server has accepted, now or before it hibernated.
Arrive(kind) ==
  /\ Len(server.events) < MaxEvents
  /\ kind = "message" => server.connections > 0
  /\ ServerStep([server EXCEPT !.events = Append(@, NewEvent(kind))])

\* The input gate lets event h in: its handler runs to its first await.
Deliver(h) ==
  /\ server.events[h].pc = "queued"
  /\ InputGateOpen(server)
  /\ ServerStep(IF server.events[h].kind = "message"
                THEN webSocketMessage(server, h)
                ELSE fetch(server, h))

StoragePutDone(h) ==
  /\ server.events[h].pc = "put"
  /\ ServerStep(afterSetName(server, h))

OnStartResolves(h) ==
  /\ server.events[h].pc = "onStart"
  /\ ServerStep(initialized(server, h))

OnStartThrows(h) ==
  /\ server.events[h].pc = "onStart"
  /\ server.onStartThrown < MaxOnStartFailures
  /\ ServerStep(initializeFailed(server, h))

HandlerReturns(h) ==
  /\ server.events[h].pc = "handler"
  /\ ServerStep([server EXCEPT !.events[h].pc = "done",
                               !.events[h].response = "ok"])

NextServer ==
  \/ \E kind \in EventKinds : Arrive(kind)
  \/ \E h \in DOMAIN server.events : Deliver(h)
  \/ \E h \in DOMAIN server.events : StoragePutDone(h)
  \/ \E h \in DOMAIN server.events : OnStartResolves(h)
  \/ \E h \in DOMAIN server.events : OnStartThrows(h)
  \/ \E h \in DOMAIN server.events : HandlerReturns(h)

SpecServer == InitServer /\ [][NextServer]_vars

C34_SupersededJobNeverDelays ==
  \A i, j \in DOMAIN jobs :
    ~ /\ jobs[i].scheduled /\ Started(jobs[i])
      /\ jobs[j].scheduled /\ jobs[j].pc = "queued"
      /\ SessionOfJob(World, j) = LatestSession
      /\ SessionOfJob(World, i) < LatestSession


\* C35: no transceiver is bound to two live subscriptions at once: two
\* open subscriptions of one session that have been handed a track never
\* hold the same mid.
C35_TransceiverExclusivelyOwned ==
  \A s1, s2 \in DOMAIN subs :
    ( /\ s1 # s2
      /\ subs[s1].open /\ subs[s2].open
      /\ subs[s1].state = "live" /\ subs[s2].state = "live"
      /\ subs[s1].session = subs[s2].session )
    => subs[s1].mid # subs[s2].mid


\* An error of the source of session$ reaches retryWithBackoff in this step.
SourceErrored ==
  /\ source \in {"fetching", "live"}
  /\ source' \in {"backoff", "idle"}
  /\ lastEvent'.name # "unsubscribe"

\* C36: a stream wrapped in retryWithBackoff is resubscribed at most
\* maxAttempts times in a row without a value in between; the error after
\* that is delivered to the end subscribers and no resubscription follows.
C36_RetriesBounded ==
  /\ [](attempt <= MaxAttempts)
  /\ [][ /\ (SourceErrored /\ attempt < MaxAttempts)
              => (source' = "backoff" /\ attempt' = attempt + 1)
         /\ (SourceErrored /\ attempt = MaxAttempts)
              => (source' = "idle" /\ refCount' = 0 /\ current' = 0)
         /\ (source' = "fetching" /\ source = "backoff")
              => (attempt \in 1..MaxAttempts /\ refCount > 0) ]_vars

\* The fetch failed once more after maxAttempts resubscriptions in a row and
\* the error ended every subscriber.
C36_Witness ==
  /\ lastEvent.name = "fetchFailed"
  /\ source = "idle"
  /\ refCount = 0
  /\ newSessionRequests = MaxAttempts + 1


\* C37: when the batch result of a subscription that was unsubscribed while
\* its item waited in the batch is processed on a peer connection that is
\* not closed, the teardown that runs at once enqueues a close of the mid
\* negotiated for it with the close dispatcher.
C37_EarlyUnsubscribeStillCloses ==
  [][\A s \in Subs :
       ( /\ ~subs[s].open
         /\ \/ subs[s].kind = "push" /\ subs[s].state = "pending"
            \/ subs[s].kind = "pull" /\ subs[s].state = "resolving"
         /\ subs'[s].state = "closed"
         /\ subs'[s].mid # 0
         /\ peerConnection[subs[s].session].connectionState # "closed" )
       => \E c \in DOMAIN calls' \ DOMAIN calls :
            calls'[c].disp = "close" /\ calls'[c].mid = subs'[s].mid]_vars


\* C38: no tracks/new request is issued for a peer connection that has
\* already been closed.
C38_NoTracksNewOnClosedConnection ==
  [][\A r \in DOMAIN requests' \ DOMAIN requests :
       requests'[r].endpoint = "tracks/new"
       => peerConnection[requests'[r].session].connectionState
            # "closed"]_vars

====
